---- MODULE Spec2Model ----
(***************************************************************************)
(* Traffic simulation on a grid city (TrafficSimulation3D).                 *)
(*   traffic_simulation/agent.py : Car, drunkDriver, Road, Traffic_Light,   *)
(*                                 Destination, Obstacle                    *)
(*   traffic_simulation/model.py : CityModel (map loading, spawn, step)     *)
(* A cell is a pair <<x, y>>.  A tick of CityModel.step is modelled as      *)
(* BeginTick (counter and spawn), one step per agent in a shuffle order     *)
(* chosen one agent at a time, and EndTick (bookkeeping).                    *)
(***************************************************************************)
EXTENDS Integers, Sequences, FiniteSets, TLC

VARIABLES
    city,        \* the loaded map: [w, h, kind, dir, period], fixed after __init__
    lights,      \* Traffic_Light.state per light cell (TRUE = green)
    car,         \* car id -> fields of the Car / drunkDriver object
    onGrid,      \* ids of the cars registered in model.agents (placed on the grid)
    carsList,    \* model.cars
    params,      \* model-level class parameters (normal_crash_prob, drunk_*)
    steps_count, \* model.steps_count
    cars_spawned,            \* model.cars_spawned
    cars_reached_destination,\* model.cars_reached_destination
    running,     \* model.running
    phase,       \* position inside CityModel.step: "idle" or "agents"
    pending,     \* agents of the current shuffle that have not stepped yet
    moved,       \* ids of the cars that changed cell during the current tick
    last,        \* what the most recent agent step did
    limits,      \* exploration limits of the run: [steps, cars]
    pf,          \* pathfinder run: inputs [origin, dest, others]
    astar,       \* pathfinder run: locals of find_path_to_destination
    gridlock,    \* gridlock-avoidance state machine of one car (spec section 4.2)
    memory       \* obstacle memory of one car and the clock it decays against

vars == <<city, lights, car, onGrid, carsList, params, steps_count, cars_spawned,
          cars_reached_destination, running, phase, pending, moved, last,
          limits, pf, astar, gridlock, memory>>

simVars == <<lights, car, onGrid, carsList, params, steps_count, cars_spawned,
             cars_reached_destination, running, phase, pending, moved, last>>

-----------------------------------------------------------------------------
(* Bounds *)

\* mixed traffic (Spec): ticks explored, cars alive at a time
MaxSteps == 4
MaxCars == 2

\* rule-following cars only (SpecNormal)
MaxStepsNormal == 6
MaxCarsNormal == 2

\* pathfinder alone (SpecPath): other cars placed on the map
MaxOthers == 1

\* one erratic driver (SpecDrunk): ticks explored, cars alive at a time
MaxDrunkTicks == 25
MaxDrunkCars == 1

\* simulation with parameter requests (SpecServer): ticks explored, cars alive
MaxServerTicks == 2
MaxServerCars == 2

\* erratic drivers without erratic behaviour (SpecSober)
MaxSoberTicks == 4
MaxSoberCars == 2

\* one erratic driver with a certain zig-zag (SpecZigzag)
MaxZigzagTicks == 8
MaxZigzagCars == 1

\* rule-following cars on the map with an empty cell (SpecGap)
MaxGapTicks == 5
MaxGapCars == 2

\* obstacle memory (SpecMemory): ticks of the clock
MaxMemoryTicks == 7

\* corridor runs (SpecCorridor): ticks explored, cars alive at a time
MaxCorridorTicks == 26
MaxCorridorCars == 2

-----------------------------------------------------------------------------
(* Directions *)

DirOrder == <<"Up", "Down", "Left", "Right">>

Dirs == {"Up", "Down", "Left", "Right"}

DX(d) == CASE d = "Left" -> -1 [] d = "Right" -> 1 [] OTHER -> 0

DY(d) == CASE d = "Up" -> 1 [] d = "Down" -> -1 [] OTHER -> 0

Opposite(d) ==
    CASE d = "Up" -> "Down" [] d = "Down" -> "Up"
      [] d = "Left" -> "Right" [] d = "Right" -> "Left"

Shift(c, d) == <<c[1] + DX(d), c[2] + DY(d)>>

Abs(n) == IF n < 0 THEN -n ELSE n

-----------------------------------------------------------------------------
(* Map loading: CityModel.__init__ *)

RoadChars == {">", "<", "^", "v"}

CharDir(ch) ==
    CASE ch = ">" -> "Right" [] ch = "<" -> "Left"
      [] ch = "^" -> "Up" [] ch = "v" -> "Down"

LightPeriodS == 2
LightPeriods == 3

DetectTrafficLightDirection(lines, row, col) ==
    IF col > 1 /\ lines[row][col - 1] \in RoadChars
        THEN CharDir(lines[row][col - 1])
    ELSE IF col < Len(lines[row]) /\ lines[row][col + 1] \in RoadChars
        THEN CharDir(lines[row][col + 1])
    ELSE IF row > 1 /\ lines[row - 1][col] \in RoadChars
        THEN CharDir(lines[row - 1][col])
    ELSE IF row < Len(lines) /\ lines[row + 1][col] \in RoadChars
        THEN CharDir(lines[row + 1][col])
    ELSE "Right"

\* lines[r][c] with r, c counted from 1; the cell of a character is
\* (c, height - r - 1) in the 0-based numbering of the source
LoadMap(lines) ==
    LET hh == Len(lines)
        ww == Len(lines[1])
        cs == {<<x, y>> : x \in 0..(ww - 1), y \in 0..(hh - 1)}
        ch(c) == lines[hh - c[2]][c[1] + 1]
    IN  [w |-> ww, h |-> hh,
         kind |-> [c \in cs |->
                    CASE ch(c) \in RoadChars -> "Road"
                      [] ch(c) \in {"S", "s"} -> "Traffic_Light"
                      [] ch(c) = "#" -> "Obstacle"
                      [] ch(c) = "D" -> "Destination"
                      [] OTHER -> "None"],
         dir |-> [c \in cs |->
                    CASE ch(c) \in RoadChars -> CharDir(ch(c))
                      [] ch(c) \in {"S", "s"} ->
                            DetectTrafficLightDirection(lines, hh - c[2], c[1] + 1)
                      [] OTHER -> "None"],
         green0 |-> [c \in cs |-> ch(c) = "s"],
         period |-> [c \in cs |->
                    CASE ch(c) = "S" -> LightPeriodS
                      [] ch(c) = "s" -> LightPeriods
                      [] OTHER -> 0]]

Cells == DOMAIN city.kind

InBounds(c) == 0 <= c[1] /\ c[1] < city.w /\ 0 <= c[2] /\ c[2] < city.h

IsRoadLike(c) == city.kind[c] \in {"Road", "Traffic_Light"}

\* IsSpawnPoint with the edge the flow leaves the map by
IsSpawnPointOutward(c) ==
    /\ city.kind[c] = "Road"
    /\ \/ city.dir[c] = "Left" /\ c[1] = 0
       \/ city.dir[c] = "Right" /\ c[1] = city.w - 1
       \/ city.dir[c] = "Down" /\ c[2] = 0
       \/ city.dir[c] = "Up" /\ c[2] = city.h - 1

IsSpawnPoint(c) ==
    /\ city.kind[c] = "Road"
    /\ \/ city.dir[c] = "Right" /\ c[1] = 0
       \/ city.dir[c] = "Left" /\ c[1] = city.w - 1
       \/ city.dir[c] = "Up" /\ c[2] = 0
       \/ city.dir[c] = "Down" /\ c[2] = city.h - 1

SpawnPoints == {c \in Cells : IsSpawnPoint(c)}

Destinations == {c \in Cells : city.kind[c] = "Destination"}

LightCells == {c \in Cells : city.kind[c] = "Traffic_Light"}

-----------------------------------------------------------------------------
(* Car.get_road_at, Car.get_valid_neighbors, Car.heuristic *)

InSeq(s, x) == \E i \in 1..Len(s) : s[i] = x

\* cell.agents holds a Road or a Traffic_Light (Traffic_Light is-a Road)
GetRoadAt(c) == IsRoadLike(c)

\* DestinationNeighbors without "road_agent.direction == dir_name"
RECURSIVE DestinationNeighborsAnyFlow(_, _, _)
DestinationNeighborsAnyFlow(cell, others, i) ==
    IF i > Len(DirOrder) THEN <<>>
    ELSE LET d == DirOrder[i]
             n == Shift(cell, d)
             here == IF InBounds(n) /\ n \notin others /\ city.kind[n] # "Obstacle"
                     THEN (IF IsRoadLike(n) THEN <<n>> ELSE <<>>)
                          \o (IF city.kind[n] = "Destination" THEN <<n>> ELSE <<>>)
                     ELSE <<>>
         IN  here \o DestinationNeighborsAnyFlow(cell, others, i + 1)

\* branch "is_at_destination": roads whose flow equals the move, and destinations
RECURSIVE DestinationNeighbors(_, _, _)
DestinationNeighbors(cell, others, i) ==
    IF i > Len(DirOrder) THEN <<>>
    ELSE LET d == DirOrder[i]
             n == Shift(cell, d)
             here == IF InBounds(n) /\ n \notin others /\ city.kind[n] # "Obstacle"
                     THEN (IF IsRoadLike(n) /\ city.dir[n] = d THEN <<n>> ELSE <<>>)
                          \o (IF city.kind[n] = "Destination" THEN <<n>> ELSE <<>>)
                     ELSE <<>>
         IN  here \o DestinationNeighbors(cell, others, i + 1)

\* branch "is_at_traffic_light": only the cell the light's direction points to
LightNeighbors(cell, others) ==
    LET n == Shift(cell, city.dir[cell])
    IN  IF InBounds(n) /\ n \notin others /\ city.kind[n] # "Obstacle"
           /\ city.kind[n] \in {"Road", "Destination", "Traffic_Light"}
        THEN <<n>> ELSE <<>>

\* RoadForward without "and not has_car"
RoadForwardIgnoreCars(cell, others) ==
    LET n == Shift(cell, city.dir[cell])
    IN  IF InBounds(n) /\ city.kind[n] # "Obstacle"
           /\ city.kind[n] \in {"Road", "Destination", "Traffic_Light"}
        THEN <<n>> ELSE <<>>

\* branch "current_road", first part: the cell in the direction of the flow
RoadForward(cell, others) ==
    LET n == Shift(cell, city.dir[cell])
    IN  IF InBounds(n) /\ city.kind[n] # "Obstacle" /\ n \notin others
           /\ city.kind[n] \in {"Road", "Destination", "Traffic_Light"}
        THEN <<n>> ELSE <<>>

\* branch "current_road", second part: the loop over the other directions
\* (each intermediate list is bound as a value before the next iteration)
RECURSIVE RoadTurns(_, _, _, _)
RoadTurns(cell, others, i, neighbors) ==
    IF i > Len(DirOrder) THEN neighbors
    ELSE LET dir_name == DirOrder[i]
             direction == city.dir[cell]
             n == Shift(cell, dir_name)
             WithDestination(acc) ==
                 IF city.kind[n] = "Destination" /\ ~InSeq(acc, n)
                 THEN Append(acc, n) ELSE acc
             WithRoad(acc) ==
                 IF IsRoadLike(n)
                 THEN IF city.dir[n] = direction
                      THEN (IF ~InSeq(acc, n) THEN Append(acc, n) ELSE acc)
                      ELSE IF city.dir[n] # Opposite(dir_name)
                      THEN (IF ~InSeq(acc, n) THEN Append(acc, n) ELSE acc)
                      ELSE acc
                 ELSE acc
             Visit(acc) ==
                 IF dir_name = direction THEN acc
                 ELSE IF InBounds(n) /\ city.kind[n] # "Obstacle" /\ n \notin others
                 THEN CHOOSE r \in {WithRoad(a1) : a1 \in {WithDestination(acc)}} : TRUE
                 ELSE acc
         IN  CHOOSE r \in {RoadTurns(cell, others, i + 1, a) : a \in {Visit(neighbors)}} : TRUE

\* the list returned by get_valid_neighbors(cell, get_road_at(cell)), in order;
\* others = the cells holding a Car other than self
GetValidNeighbors(cell, others) ==
    IF city.kind[cell] = "Destination" THEN DestinationNeighbors(cell, others, 1)
    ELSE IF city.kind[cell] = "Traffic_Light" THEN LightNeighbors(cell, others)
    ELSE IF GetRoadAt(cell)
    THEN CHOOSE r \in {RoadTurns(cell, others, 1, f) : f \in {RoadForward(cell, others)}} : TRUE
    ELSE <<>>

HeuristicWeighted(c1, c2) == 3 * (Abs(c1[1] - c2[1]) + Abs(c1[2] - c2[2]))

Heuristic(c1, c2) == Abs(c1[1] - c2[1]) + Abs(c1[2] - c2[2])

-----------------------------------------------------------------------------
(* Car.find_path_to_destination: A* with a heap of (f, counter, cell, path) *)

\* the locals before the while loop
AStarInit(origin) ==
    [open |-> {[f |-> 0, n |-> 0, cell |-> origin, path |-> <<origin>>]},
     g |-> [c \in {origin} |-> 0],
     closed |-> {},
     counter |-> 0,
     expanded |-> <<>>,
     done |-> FALSE,
     result |-> <<>>]

\* heapq.heappop: least (f, counter); counters are unique
HeapPop(open) ==
    CHOOSE e \in open : \A o \in open : e.f < o.f \/ (e.f = o.f /\ e.n <= o.n)

\* the "for neighbor in neighbors" loop
RECURSIVE Relax(_, _, _, _, _, _)
Relax(st, current, path, neighbors, i, dest) ==
    IF i > Len(neighbors) THEN st
    ELSE LET neighbor == neighbors[i]
             tentative_g == st.g[current] + 1
             pushed == [st EXCEPT
                 !.g = [c \in (DOMAIN st.g) \cup {neighbor} |->
                            IF c = neighbor THEN tentative_g ELSE st.g[c]],
                 !.counter = st.counter + 1,
                 !.open = st.open \cup
                     {[f |-> tentative_g + Heuristic(neighbor, dest),
                       n |-> st.counter + 1,
                       cell |-> neighbor,
                       path |-> Append(path, neighbor)]}]
             after == IF neighbor \in st.closed THEN st
                      ELSE IF neighbor \notin DOMAIN st.g \/ tentative_g < st.g[neighbor]
                      THEN pushed
                      ELSE st
         IN  CHOOSE r \in {Relax(nx, current, path, neighbors, i + 1, dest) :
                              nx \in {after}} : TRUE

\* AStarIter without "if current in closed_set: continue"
AStarIterNoClosedCheck(st, dest, others) ==
    IF st.open = {} THEN [st EXCEPT !.done = TRUE, !.result = <<>>]
    ELSE LET e == HeapPop(st.open)
             popped == [st EXCEPT !.open = st.open \ {e}]
             marked == [popped EXCEPT !.closed = popped.closed \cup {e.cell},
                                      !.expanded = Append(popped.expanded, e.cell)]
         IN  IF e.cell = dest
             THEN [marked EXCEPT !.done = TRUE, !.result = Tail(e.path)]
             ELSE CHOOSE r \in {Relax(m, x.cell, x.path, ns, 1, dest) :
                                  m \in {marked}, x \in {e},
                                  ns \in {GetValidNeighbors(e.cell, others)}} : TRUE

\* one iteration of "while open_set", or the exit of the loop
AStarIter(st, dest, others) ==
    IF st.open = {} THEN [st EXCEPT !.done = TRUE, !.result = <<>>]
    ELSE LET e == HeapPop(st.open)
             popped == [st EXCEPT !.open = st.open \ {e}]
             marked == [popped EXCEPT !.closed = popped.closed \cup {e.cell},
                                      !.expanded = Append(popped.expanded, e.cell)]
         IN  IF e.cell \in st.closed THEN popped
             ELSE IF e.cell = dest
             THEN [marked EXCEPT !.done = TRUE, !.result = Tail(e.path)]
             ELSE CHOOSE r \in {Relax(m, x.cell, x.path, ns, 1, dest) :
                                  m \in {marked}, x \in {e},
                                  ns \in {GetValidNeighbors(e.cell, others)}} : TRUE

RECURSIVE AStarRun(_, _, _)
AStarRun(st, dest, others) ==
    IF st.done THEN st
    ELSE CHOOSE r \in {AStarRun(nx, dest, others) :
                         nx \in {AStarIter(st, dest, others)}} : TRUE

FindPathToDestination(origin, dest, others) ==
    IF origin = dest THEN <<>>
    ELSE (CHOOSE r \in {AStarRun(st, dest, others) : st \in {AStarInit(origin)}} : TRUE).result

-----------------------------------------------------------------------------
(* Grid occupancy and random draws *)

NoCell == <<-1, -1>>

\* "any(isinstance(agent, Car) for agent in c.agents if agent != self)"
HasOtherCar(c, self) == \E j \in onGrid \ {self} : car[j].cell = c

\* HasCar testing isinstance(agent, drunkDriver) instead of Car
HasCarDrunkOnly(c) == \E j \in onGrid : car[j].cell = c /\ car[j].kind = "drunkDriver"

\* "any(isinstance(agent, Car) for agent in c.agents)"
HasCar(c) == \E j \in onGrid : car[j].cell = c

HasObstacle(c) == city.kind[c] = "Obstacle"

OthersOf(self) == {car[j].cell : j \in onGrid \ {self}}

\* RedLightAt without the "not" of "not traffic_lights[0].state"
RedLightAtInverted(c) == city.kind[c] = "Traffic_Light" /\ lights[c]

\* a red Traffic_Light in the cell
RedLightAt(c) == city.kind[c] = "Traffic_Light" /\ ~lights[c]

\* values of model.random.random(), in hundredths; probabilities are in percent
Rolls == {0, 50, 99}

\* the possible truth values of "random() < p"
Chance(p) == {r < p : r \in Rolls}

\* the possible truth values of "random() > p"
ChanceAbove(p) == {r > p : r \in Rolls}

\* direction written by the "dx > 0 ... elif dy < 0" chain; unchanged if no move
DirectionAfter(old, new, direction) ==
    IF new[1] > old[1] THEN "Right"
    ELSE IF new[1] < old[1] THEN "Left"
    ELSE IF new[2] > old[2] THEN "Up"
    ELSE IF new[2] < old[2] THEN "Down"
    ELSE direction

\* result of one agent step: the object's fields, whether remove() ran,
\* the branch taken and the cell the move was aimed at
Outcome(me, removed, branch, target) ==
    [me |-> me, removed |-> removed, branch |-> branch, target |-> target]

\* Crashed without "self.crash_recovery_steps = 10"
CrashedWithoutCountdown(me) == [me EXCEPT !.crashed = TRUE]

\* "self.crashed = True; self.crash_recovery_steps = 10"
Crashed(me) == [me EXCEPT !.crashed = TRUE, !.crash_recovery_steps = 10]

-----------------------------------------------------------------------------
(* Car.__init__, Car.can_move_forward, Car.move_along_path,               *)
(* Car.continue_in_road_direction, Car.step                                *)

NewCar(cell, destination) ==
    [kind |-> "Car", cell |-> cell, destination |-> destination, path |-> <<>>,
     reached_destination |-> FALSE, waiting_at_light |-> FALSE,
     direction |-> "Right", crashed |-> FALSE,
     crash_prob |-> params.normal_crash_prob, crash_recovery_steps |-> 0,
     random_move_prob |-> 0, ignore_light_prob |-> 0, wrong_way_prob |-> 0,
     forget_route_prob |-> 0, zigzag_intensity |-> 0, zigzag_state |-> "left",
     random_steps_remaining |-> 0]

\* RecoveryOutcome that never clears the crashed flag
RecoveryOutcomeStaysCrashed(me) ==
    Outcome([me EXCEPT !.crash_recovery_steps = me.crash_recovery_steps - 1],
            FALSE, "recover", me.cell)

\* the part of step() shared by Car and drunkDriver: crash recovery
RecoveryOutcome(me) ==
    LET left == me.crash_recovery_steps - 1
    IN  Outcome([me EXCEPT !.crash_recovery_steps = left,
                           !.crashed = IF left = 0 THEN FALSE ELSE me.crashed],
                FALSE, "recover", me.cell)

\* ArrivalOutcome without "self.remove()"
ArrivalOutcomeStays(me) ==
    Outcome([me EXCEPT !.reached_destination = TRUE], FALSE, "arrive", me.cell)

\* the part of step() shared by Car and drunkDriver: arrival; remove() takes
\* the agent out of model.agents and out of its cell
ArrivalOutcome(me) ==
    Outcome([me EXCEPT !.reached_destination = TRUE, !.cell = NoCell],
            TRUE, "arrive", me.cell)

ContinueInRoadDirection(self, me) ==
    LET direction == city.dir[me.cell]
        next_cell == Shift(me.cell, direction)
    IN  IF ~GetRoadAt(me.cell) THEN {Outcome(me, FALSE, "noroad", me.cell)}
        ELSE IF ~InBounds(next_cell) THEN {Outcome(me, FALSE, "edge", next_cell)}
        ELSE IF HasObstacle(next_cell) \/ HasOtherCar(next_cell, self)
        THEN {Outcome(me, FALSE, "blocked", next_cell)}
        ELSE IF RedLightAt(me.cell)
        THEN {Outcome([me EXCEPT !.waiting_at_light = TRUE], FALSE, "red", next_cell)}
        ELSE {Outcome([me EXCEPT !.waiting_at_light = FALSE, !.cell = next_cell,
                                 !.direction = direction],
                      FALSE, "fallback", next_cell)}

\* me already holds the path computed by "if not self.path"
MoveAlongPath(self, me) ==
    IF me.path # <<>>
    THEN LET next_cell == Head(me.path)
         IN  IF RedLightAt(me.cell)
             THEN {Outcome([me EXCEPT !.waiting_at_light = TRUE], FALSE, "red", next_cell)}
             ELSE IF HasCar(next_cell)
             THEN {Outcome([me EXCEPT !.waiting_at_light = FALSE],
                           FALSE, "blocked", next_cell)}
             ELSE LET popped == [me EXCEPT !.waiting_at_light = FALSE,
                                           !.path = Tail(me.path)]
                  IN  IF HasOtherCar(next_cell, self)
                      THEN {IF hit THEN Outcome(Crashed(popped), FALSE, "crash", next_cell)
                                   ELSE Outcome([popped EXCEPT
                                            !.cell = next_cell,
                                            !.direction = DirectionAfter(me.cell, next_cell,
                                                                         me.direction)],
                                            FALSE, "path", next_cell)
                            : hit \in Chance(me.crash_prob)}
                      ELSE {Outcome([popped EXCEPT
                                !.cell = next_cell,
                                !.direction = DirectionAfter(me.cell, next_cell,
                                                             me.direction)],
                                FALSE, "path", next_cell)}
    ELSE ContinueInRoadDirection(self, me)

\* WithPath keeping the start cell at the head of the path
WithPathFromOrigin(self, me) ==
    IF me.path = <<>>
    THEN [me EXCEPT !.path =
            LET found == FindPathToDestination(me.cell, me.destination, OthersOf(self))
            IN  IF found = <<>> THEN <<>> ELSE <<me.cell>> \o found]
    ELSE me

\* "if not self.path: self.path = self.find_path_to_destination()"
WithPath(self, me) ==
    IF me.path = <<>>
    THEN [me EXCEPT !.path = FindPathToDestination(me.cell, me.destination, OthersOf(self))]
    ELSE me

\* Car.step run on the fields "me" of the agent standing where car "self" stands
CarStepFrom(self, me) ==
    IF me.crash_recovery_steps > 0 THEN {RecoveryOutcome(me)}
    ELSE IF me.cell = me.destination THEN {ArrivalOutcome(me)}
    ELSE UNION {MoveAlongPath(self, m) : m \in {WithPath(self, me)}}

CarStepOutcomes(self) == CarStepFrom(self, car[self])

-----------------------------------------------------------------------------
(* drunkDriver *)

NewDrunkDriver(cell, destination) ==
    [kind |-> "drunkDriver", cell |-> cell, destination |-> destination, path |-> <<>>,
     reached_destination |-> FALSE, waiting_at_light |-> FALSE,
     direction |-> "Right", crashed |-> FALSE,
     crash_prob |-> params.drunk_crash_prob, crash_recovery_steps |-> 0,
     random_move_prob |-> params.drunk_random_move_prob,
     ignore_light_prob |-> params.drunk_ignore_light_prob,
     wrong_way_prob |-> params.drunk_wrong_way_prob,
     forget_route_prob |-> params.drunk_forget_route_prob,
     zigzag_intensity |-> params.drunk_zigzag_intensity,
     zigzag_state |-> "left",
     random_steps_remaining |-> 0]

\* get_random_neighbor: the in-bounds 4-neighbours, as <<cell, direction>>
RandomNeighbors(c) == {<<Shift(c, d), d>> : d \in {e \in Dirs : InBounds(Shift(c, e))}}

\* get_wrong_way_neighbor: the cell against the flow of the current road
WrongWayNeighbors(c) ==
    IF GetRoadAt(c) /\ InBounds(Shift(c, Opposite(city.dir[c])))
    THEN {<<Shift(c, Opposite(city.dir[c])), Opposite(city.dir[c])>>}
    ELSE {}

\* AttemptMove without the has_car block
AttemptMoveIgnoreCars(self, me, next_cell, new_direction, branch) ==
    IF HasObstacle(next_cell)
    THEN {IF hit THEN Outcome(Crashed(me), FALSE, "crash_obstacle", next_cell)
                 ELSE Outcome(me, FALSE, "blocked", next_cell)
          : hit \in Chance(me.crash_prob)}
    ELSE {Outcome([me EXCEPT !.cell = next_cell, !.direction = new_direction],
                  FALSE, branch, next_cell)}

\* the block repeated in the random-run, wrong-way and random-move branches:
\* obstacle -> crash roll and return; car -> crash roll and return; else move
AttemptMove(self, me, next_cell, new_direction, branch) ==
    IF HasObstacle(next_cell)
    THEN {IF hit THEN Outcome(Crashed(me), FALSE, "crash_obstacle", next_cell)
                 ELSE Outcome(me, FALSE, "blocked", next_cell)
          : hit \in Chance(me.crash_prob)}
    ELSE IF HasOtherCar(next_cell, self)
    THEN {IF hit THEN Outcome(Crashed(me), FALSE, "crash_car", next_cell)
                 ELSE Outcome(me, FALSE, "blocked", next_cell)
          : hit \in Chance(me.crash_prob)}
    ELSE {Outcome([me EXCEPT !.cell = next_cell, !.direction = new_direction],
                  FALSE, branch, next_cell)}

AttemptAny(self, me, candidates, branch) ==
    IF candidates = {} THEN {Outcome(me, FALSE, "none", me.cell)}
    ELSE UNION {AttemptMove(self, me, nd[1], nd[2], branch) : nd \in candidates}

\* FlipZigzag leaving the side as it is
FlipZigzagNever(z) == z

\* self.zigzag_state = "right" if self.zigzag_state == "left" else "left"
FlipZigzag(z) == IF z = "left" THEN "right" ELSE "left"

\* apply_zigzag without the has_obstacle test on the zigzag cell
ApplyZigzagOntoObstacles(self, me, intended_cell) ==
    LET current_dir == city.dir[me.cell]
        offset == IF current_dir \in {"Up", "Down"}
                  THEN (IF me.zigzag_state = "left" THEN <<-1, 0>> ELSE <<1, 0>>)
                  ELSE (IF me.zigzag_state = "left" THEN <<0, 1>> ELSE <<0, -1>>)
        zigzag_cell == <<intended_cell[1] + offset[1], intended_cell[2] + offset[2]>>
        applied ==
            IF ~GetRoadAt(me.cell)
            THEN [cell |-> intended_cell, zigzag_state |-> me.zigzag_state, swerved |-> FALSE]
            ELSE IF InBounds(zigzag_cell) /\ ~HasOtherCar(zigzag_cell, self)
            THEN [cell |-> zigzag_cell, zigzag_state |-> FlipZigzag(me.zigzag_state),
                  swerved |-> TRUE]
            ELSE [cell |-> intended_cell, zigzag_state |-> FlipZigzag(me.zigzag_state),
                  swerved |-> FALSE]
    IN  {IF skip
         THEN [cell |-> intended_cell, zigzag_state |-> me.zigzag_state, swerved |-> FALSE]
         ELSE applied
         : skip \in ChanceAbove(me.zigzag_intensity)}

\* apply_zigzag: the cells it may return, with the zigzag_state it leaves
ApplyZigzag(self, me, intended_cell) ==
    LET current_dir == city.dir[me.cell]
        offset == IF current_dir \in {"Up", "Down"}
                  THEN (IF me.zigzag_state = "left" THEN <<-1, 0>> ELSE <<1, 0>>)
                  ELSE (IF me.zigzag_state = "left" THEN <<0, 1>> ELSE <<0, -1>>)
        zigzag_cell == <<intended_cell[1] + offset[1], intended_cell[2] + offset[2]>>
        applied ==
            IF ~GetRoadAt(me.cell)
            THEN [cell |-> intended_cell, zigzag_state |-> me.zigzag_state, swerved |-> FALSE]
            ELSE IF InBounds(zigzag_cell) /\ ~HasObstacle(zigzag_cell)
                    /\ ~HasOtherCar(zigzag_cell, self)
            THEN [cell |-> zigzag_cell, zigzag_state |-> FlipZigzag(me.zigzag_state),
                  swerved |-> TRUE]
            ELSE [cell |-> intended_cell, zigzag_state |-> FlipZigzag(me.zigzag_state),
                  swerved |-> FALSE]
    IN  {IF skip
         THEN [cell |-> intended_cell, zigzag_state |-> me.zigzag_state, swerved |-> FALSE]
         ELSE applied
         : skip \in ChanceAbove(me.zigzag_intensity)}

\* the "else" branch of drunkDriver.step after the light check of
\* can_move_forward_drunk let the car go on; m.waiting_at_light is already False
DrunkAdvance(self, m) ==
    LET next_cell == Head(m.path)
        popped == [m EXCEPT !.path = Tail(m.path)]
    IN  IF HasOtherCar(next_cell, self)
        THEN {Outcome(m, FALSE, "blocked", next_cell)}
        ELSE IF HasObstacle(next_cell)
        THEN {IF hit THEN Outcome(Crashed(popped), FALSE, "crash_obstacle", next_cell)
                     ELSE Outcome(popped, FALSE, "blocked", next_cell)
              : hit \in Chance(m.crash_prob)}
        ELSE {Outcome([popped EXCEPT
                        !.cell = z.cell,
                        !.zigzag_state = z.zigzag_state,
                        !.direction = DirectionAfter(m.cell, z.cell, m.direction)],
                      FALSE, IF z.swerved THEN "zigzag" ELSE "path", next_cell)
              : z \in ApplyZigzag(self, popped, next_cell)}

\* path following of drunkDriver.step with can_move_forward_drunk
DrunkFollowPath(self, me) ==
    LET m == WithPath(self, me)
        go == [m EXCEPT !.waiting_at_light = FALSE]
    IN  IF m.path = <<>> THEN {Outcome(m, FALSE, "nopath", m.cell)}
        ELSE IF RedLightAt(m.cell)
        THEN UNION {IF ignore
                    THEN DrunkAdvance(self, go)
                    ELSE {Outcome([m EXCEPT !.waiting_at_light = TRUE],
                                  FALSE, "red", Head(m.path))}
                    : ignore \in Chance(m.ignore_light_prob)}
        ELSE DrunkAdvance(self, go)

\* randint(3, 6)
ForgetRunLengthsLong == 3..6

\* "self.model.random.randint(3, 5)"
ForgetRunLengths == 3..5

\* drunkDriver.step with the forget-route roll made before the test for a
\* random run in progress
DrunkStepOutcomesForgetFirst(self) ==
    LET me == car[self]
        run == [me EXCEPT !.random_steps_remaining = me.random_steps_remaining - 1]
        rest ==
            UNION {IF wrong
                   THEN AttemptAny(self, me, WrongWayNeighbors(me.cell), "wrongway")
                   ELSE UNION {IF rnd
                               THEN AttemptAny(self, me, RandomNeighbors(me.cell), "random")
                               ELSE DrunkFollowPath(self, me)
                               : rnd \in Chance(me.random_move_prob)}
                   : wrong \in Chance(me.wrong_way_prob)}
        policy ==
            UNION {IF forget
                   THEN {Outcome([me EXCEPT !.path = <<>>, !.random_steps_remaining = k],
                                 FALSE, "forget", me.cell) : k \in ForgetRunLengths}
                   ELSE IF me.random_steps_remaining > 0
                   THEN AttemptAny(self, run, RandomNeighbors(me.cell), "random_run")
                   ELSE rest
                   : forget \in Chance(me.forget_route_prob)}
    IN  IF me.crash_recovery_steps > 0 THEN {RecoveryOutcome(me)}
        ELSE IF me.cell = me.destination THEN {ArrivalOutcome(me)}
        ELSE policy

DrunkStepOutcomes(self) ==
    LET me == car[self]
        run == [me EXCEPT !.random_steps_remaining = me.random_steps_remaining - 1]
        policy ==
            UNION {IF forget
                   THEN {Outcome([me EXCEPT !.path = <<>>, !.random_steps_remaining = k],
                                 FALSE, "forget", me.cell) : k \in ForgetRunLengths}
                   ELSE UNION {IF wrong
                               THEN AttemptAny(self, me, WrongWayNeighbors(me.cell), "wrongway")
                               ELSE UNION {IF rnd
                                           THEN AttemptAny(self, me, RandomNeighbors(me.cell),
                                                           "random")
                                           ELSE DrunkFollowPath(self, me)
                                           : rnd \in Chance(me.random_move_prob)}
                               : wrong \in Chance(me.wrong_way_prob)}
                   : forget \in Chance(me.forget_route_prob)}
    IN  IF me.crash_recovery_steps > 0 THEN {RecoveryOutcome(me)}
        ELSE IF me.cell = me.destination THEN {ArrivalOutcome(me)}
        ELSE IF me.random_steps_remaining > 0
        THEN AttemptAny(self, run, RandomNeighbors(me.cell), "random_run")
        ELSE policy

-----------------------------------------------------------------------------
(* Maps: the rows of a map file, top row first, one character per cell *)

\*   # D D .
\*   > > S D
\*   # ^ # <
MapCross == << <<"#", "D", "D", ".">>,
               <<">", ">", "S", "D">>,
               <<"#", "^", "#", "<">> >>

\*   > > > v
\*   ^ # D v
\*   ^ < < <
MapRing == << <<">", ">", ">", "v">>,
              <<"^", "#", "D", "v">>,
              <<"^", "<", "<", "<">> >>

\*   v v D > <
\*   D ^ D # <
\*   D # < < D
MapWeave == << <<"v", "v", "D", ">", "<">>,
               <<"D", "^", "D", "#", "<">>,
               <<"D", "#", "<", "<", "D">> >>

\*   < < # D
\*   > > ^ <
\*   < # < #
\*   v D > ^
MapBlock == << <<"<", "<", "#", "D">>,
               <<">", ">", "^", "<">>,
               <<"<", "#", "<", "#">>,
               <<"v", "D", ">", "^">> >>

\*   D # < v
\*   > ^ > v
\*   > > < <
MapDetour == << <<"D", "#", "<", "v">>,
                <<">", "^", ">", "v">>,
                <<">", ">", "<", "<">> >>

\*   # D v # D
\*   > > > S D
\*   # D . # <
MapTown == << <<"#", "D", "v", "#", "D">>,
              <<">", ">", ">", "S", "D">>,
              <<"#", "D", ".", "#", "<">> >>

\*   # # # D # #
\*   > > > ^ < <
\*   # # # # # #
MapMerge == << <<"#", "#", "#", "D", "#", "#">>,
               <<">", ">", ">", "^", "<", "<">>,
               <<"#", "#", "#", "#", "#", "#">> >>

\*   # D #
\*   # ^ #     no road on the edge: a map without spawn points
\*   # # #
MapClosed == << <<"#", "D", "#">>,
                <<"#", "^", "#">>,
                <<"#", "#", "#">> >>

\*   > S D < <
\*   > . # # #     the lower road ends in front of an empty cell
MapGap == << <<">", "S", "D", "<", "<">>,
             <<">", ".", "#", "#", "#">> >>

PathMaps == {MapCross, MapRing, MapWeave, MapBlock, MapDetour, MapTown}

SimMaps == {MapCross}

NormalMaps == {MapTown, MapMerge, MapClosed}

-----------------------------------------------------------------------------
(* State after CityModel.__init__ *)

NoPf == [origin |-> <<0, 0>>, dest |-> <<0, 0>>, others |-> {}]

NoAStar == [open |-> {}, g |-> <<>>, closed |-> {}, counter |-> 0,
            expanded |-> <<>>, done |-> TRUE, result |-> <<>>]

NoLast == [agent |-> 0, branch |-> "none", target |-> <<0, 0>>]

\* a car in mode NORMAL whose destination is not blocked
NoGridlock ==
    [mode |-> "NORMAL", blocked |-> FALSE, permanent |-> FALSE,
     waited |-> 0, circular_ticks |-> 0, clear_for |-> 0]

\* an empty obstacle memory at tick 0, before any search
NoMemory ==
    [now |-> 0, entries |-> <<>>, event |-> "none", cell |-> <<0, 0>>,
     cars |-> {}, accidents |-> {}, used |-> <<>>]

ModelInit ==
    /\ lights = [c \in LightCells |-> city.green0[c]]
    /\ car = <<>>
    /\ onGrid = {}
    /\ carsList = {}
    /\ steps_count = 0
    /\ cars_spawned = 0
    /\ cars_reached_destination = 0
    /\ running = TRUE
    /\ phase = "idle"
    /\ pending = [cars |-> {}, lights |-> {}]
    /\ moved = {}
    /\ last = NoLast
    /\ gridlock = NoGridlock
    /\ memory = NoMemory

-----------------------------------------------------------------------------
(* CityModel.spawn_car, CityModel.can_spawn_more_cars, CityModel.step *)

\* class of the car a spawn creates, drawn against normal_spawn_ratio
SpawnKinds ==
    {k \in {"Car", "drunkDriver"} :
        \/ k = "Car" /\ TRUE \in Chance(params.normal_spawn_ratio)
        \/ k = "drunkDriver" /\ FALSE \in Chance(params.normal_spawn_ratio)}

\* the path found by the probing temp_car placed on the spawn cell
ProbePath(spawn_cell, destination_cell) ==
    FindPathToDestination(spawn_cell, destination_cell, {car[j].cell : j \in onGrid})

\* AttemptFails without "if len(path) > 0"
AttemptFailsOccupiedOnly(spawn_cell, destination_cell) == HasCar(spawn_cell)

\* an attempt of the loop that ends in "continue" or finds no path
AttemptFails(spawn_cell, destination_cell) ==
    \/ HasCar(spawn_cell)
    \/ Len(ProbePath(spawn_cell, destination_cell)) = 0

\* spawn_car can return None: no spawn point or destination, or every one of
\* the 100 attempts drew a failing combination
SpawnMayFail ==
    \/ SpawnPoints = {} \/ Destinations = {}
    \/ \E sc \in SpawnPoints : \E dc \in Destinations : AttemptFails(sc, dc)

\* the car created by a successful attempt
SpawnedCar(kind, spawn_cell, destination_cell) ==
    LET fresh == IF kind = "Car" THEN NewCar(spawn_cell, destination_cell)
                 ELSE NewDrunkDriver(spawn_cell, destination_cell)
    IN  IF GetRoadAt(spawn_cell)
        THEN [fresh EXCEPT !.direction = city.dir[spawn_cell]]
        ELSE fresh

FreeId == CHOOSE i \in 1..limits.cars : i \notin DOMAIN car

\* spawn_car(): the values of <<car, onGrid, carsList, cars_spawned>> it can leave
SpawnCar ==
    \/ /\ SpawnMayFail
       /\ UNCHANGED <<car, onGrid, carsList, cars_spawned>>
    \/ /\ Cardinality(DOMAIN car) < limits.cars
       /\ \E sc \in SpawnPoints, dc \in Destinations, kind \in SpawnKinds :
            /\ ~AttemptFails(sc, dc)
            /\ car' = [i \in (DOMAIN car) \cup {FreeId} |->
                         IF i = FreeId THEN SpawnedCar(kind, sc, dc) ELSE car[i]]
            /\ onGrid' = onGrid \cup {FreeId}
            /\ carsList' = carsList \cup {FreeId}
            /\ cars_spawned' = cars_spawned + 1

\* can_spawn_more_cars answering True for an occupied spawn point
CanSpawnMoreCarsInverted(grid, cs) == \E sc \in SpawnPoints : \E j \in grid : cs[j].cell = sc

CanSpawnMoreCars(grid, cs) == \E sc \in SpawnPoints : ~(\E j \in grid : cs[j].cell = sc)

\* BeginTick without the "steps_count % spawn_interval == 0" test
BeginTickAlwaysSpawns ==
    /\ phase = "idle"
    /\ steps_count < limits.steps
    /\ steps_count' = steps_count + 1
    /\ SpawnCar
    /\ phase' = "agents"
    /\ pending' = [cars |-> onGrid', lights |-> LightCells]
    /\ moved' = {}
    /\ last' = NoLast
    /\ UNCHANGED <<city, gridlock, memory, lights, params, cars_reached_destination, running,
                   limits, pf, astar>>

\* CityModel.step up to "agents_list = list(self.agents); shuffle"
BeginTick ==
    /\ phase = "idle"
    /\ steps_count < limits.steps
    /\ steps_count' = steps_count + 1
    /\ IF (steps_count + 1) % params.spawn_interval = 0
       THEN SpawnCar
       ELSE UNCHANGED <<car, onGrid, carsList, cars_spawned>>
    /\ phase' = "agents"
    /\ pending' = [cars |-> onGrid', lights |-> LightCells]
    /\ moved' = {}
    /\ last' = NoLast
    /\ UNCHANGED <<city, gridlock, memory, lights, params, cars_reached_destination, running,
                   limits, pf, astar>>

\* LightStep without the "steps_count % timeToChange == 0" test
LightStepEveryTick(c) ==
    /\ phase = "agents"
    /\ c \in pending.lights
    /\ lights' = [lights EXCEPT ![c] = ~lights[c]]
    /\ pending' = [pending EXCEPT !.lights = pending.lights \ {c}]
    /\ last' = [agent |-> 0, branch |-> "light", target |-> c]
    /\ UNCHANGED <<city, gridlock, memory, car, onGrid, carsList, params, steps_count, cars_spawned,
                   cars_reached_destination, running, phase, moved, limits, pf, astar>>

\* Traffic_Light.step, when the shuffle reaches the light
LightStep(c) ==
    /\ phase = "agents"
    /\ c \in pending.lights
    /\ lights' = IF steps_count % city.period[c] = 0
                 THEN [lights EXCEPT ![c] = ~lights[c]]
                 ELSE lights
    /\ pending' = [pending EXCEPT !.lights = pending.lights \ {c}]
    /\ last' = [agent |-> 0, branch |-> "light", target |-> c]
    /\ UNCHANGED <<city, gridlock, memory, car, onGrid, carsList, params, steps_count, cars_spawned,
                   cars_reached_destination, running, phase, moved, limits, pf, astar>>

StepOutcomes(self) ==
    IF car[self].kind = "Car" THEN CarStepOutcomes(self) ELSE DrunkStepOutcomes(self)

\* Car.step / drunkDriver.step, when the shuffle reaches the car
CarStep(self) ==
    /\ phase = "agents"
    /\ self \in pending.cars
    /\ \E o \in StepOutcomes(self) :
         /\ car' = [car EXCEPT ![self] = o.me]
         /\ onGrid' = IF o.removed THEN onGrid \ {self} ELSE onGrid
         /\ last' = [agent |-> self, branch |-> o.branch, target |-> o.target]
    /\ pending' = [pending EXCEPT !.cars = pending.cars \ {self}]
    /\ moved' = IF car'[self].cell \notin {car[self].cell, NoCell}
                THEN moved \cup {self} ELSE moved
    /\ UNCHANGED <<city, gridlock, memory, lights, carsList, params, steps_count, cars_spawned,
                   cars_reached_destination, running, phase, limits, pf, astar>>

\* EndTick with cars_reached_destination computed before self.cars is filtered
EndTickCountsBeforeFilter ==
    /\ phase = "agents"
    /\ pending.cars = {} /\ pending.lights = {}
    /\ carsList' = carsList \cap onGrid
    /\ cars_reached_destination' = cars_spawned - Cardinality(carsList)
    /\ running' = IF ~CanSpawnMoreCars(onGrid, car) /\ carsList' = {} THEN FALSE ELSE running
    /\ car' = [i \in carsList' |-> car[i]]
    /\ phase' = "idle"
    /\ pending' = [cars |-> {}, lights |-> {}]
    /\ moved' = moved \cap carsList'
    /\ UNCHANGED <<city, gridlock, memory, lights, onGrid, params, steps_count, cars_spawned,
                   limits, last, pf, astar>>

\* CityModel.step after the agent loop
EndTick ==
    /\ phase = "agents"
    /\ pending.cars = {} /\ pending.lights = {}
    /\ carsList' = carsList \cap onGrid
    /\ cars_reached_destination' = cars_spawned - Cardinality(carsList')
    /\ running' = IF ~CanSpawnMoreCars(onGrid, car) /\ carsList' = {} THEN FALSE ELSE running
    /\ car' = [i \in carsList' |-> car[i]]
    /\ phase' = "idle"
    /\ pending' = [cars |-> {}, lights |-> {}]
    /\ moved' = moved \cap carsList'
    /\ UNCHANGED <<city, gridlock, memory, lights, onGrid, params, steps_count, cars_spawned,
                   limits, last, pf, astar>>

\* every erratic behaviour possible, a spawn attempt every second tick
MixedProfile ==
    [normal_spawn_ratio |-> 50, normal_crash_prob |-> 50, drunk_crash_prob |-> 50,
     drunk_ignore_light_prob |-> 50, drunk_wrong_way_prob |-> 50,
     drunk_forget_route_prob |-> 50, drunk_zigzag_intensity |-> 50,
     drunk_random_move_prob |-> 50, spawn_interval |-> 2]

\* rule-following cars only, a spawn attempt every tick
NormalProfile ==
    [normal_spawn_ratio |-> 100, normal_crash_prob |-> 0, drunk_crash_prob |-> 0,
     drunk_ignore_light_prob |-> 0, drunk_wrong_way_prob |-> 0,
     drunk_forget_route_prob |-> 0, drunk_zigzag_intensity |-> 0,
     drunk_random_move_prob |-> 0, spawn_interval |-> 1]

Init ==
    /\ city \in {LoadMap(m) : m \in SimMaps}
    /\ params = MixedProfile
    /\ limits = [steps |-> MaxSteps, cars |-> MaxCars]
    /\ ModelInit
    /\ pf = NoPf
    /\ astar = NoAStar

InitNormal ==
    /\ city \in {LoadMap(m) : m \in NormalMaps}
    /\ params = NormalProfile
    /\ limits = [steps |-> MaxStepsNormal, cars |-> MaxCarsNormal]
    /\ ModelInit
    /\ pf = NoPf
    /\ astar = NoAStar

Next ==
    \/ BeginTick
    \/ \E c \in LightCells : LightStep(c)
    \/ \E i \in DOMAIN car : CarStep(i)
    \/ EndTick

Spec == Init /\ [][Next]_vars

SpecNormal == InitNormal /\ [][Next]_vars

-----------------------------------------------------------------------------
(* The pathfinder on its own: every map, origin, destination and placement *)
(* of at most MaxOthers other cars                                          *)

DefaultParams ==
    [normal_spawn_ratio |-> 100, normal_crash_prob |-> 0, drunk_crash_prob |-> 50,
     drunk_ignore_light_prob |-> 30, drunk_wrong_way_prob |-> 0,
     drunk_forget_route_prob |-> 15, drunk_zigzag_intensity |-> 0,
     drunk_random_move_prob |-> 0, spawn_interval |-> 10]

PathInputs ==
    {[origin |-> o, dest |-> d, others |-> s] :
        o \in {c \in Cells : city.kind[c] # "Obstacle"},
        d \in Destinations,
        s \in {t \in SUBSET Cells : Cardinality(t) <= MaxOthers}}

InitPath ==
    /\ city \in {LoadMap(m) : m \in PathMaps}
    /\ params = DefaultParams
    /\ limits = [steps |-> 0, cars |-> 0]
    /\ ModelInit
    /\ pf \in {i \in PathInputs : i.origin \notin i.others}
    /\ astar = AStarInit(pf.origin)

\* "if self.cell == self.destination: return []"
PathAtDestination ==
    /\ ~astar.done
    /\ pf.origin = pf.dest
    /\ astar' = [astar EXCEPT !.done = TRUE, !.result = <<>>]
    /\ UNCHANGED <<city, gridlock, memory, pf, limits>>
    /\ UNCHANGED simVars

\* one iteration of the while loop
PathIter ==
    /\ ~astar.done
    /\ pf.origin # pf.dest
    /\ astar' = AStarIter(astar, pf.dest, pf.others)
    /\ UNCHANGED <<city, gridlock, memory, pf, limits>>
    /\ UNCHANGED simVars

NextPath == PathAtDestination \/ PathIter

SpecPath == InitPath /\ [][NextPath]_vars

SpecPathFair == SpecPath /\ WF_vars(NextPath)

-----------------------------------------------------------------------------
(* Reference: breadth-first search over get_valid_neighbors *)

Successors(c, others) ==
    LET ns == GetValidNeighbors(c, others) IN {ns[i] : i \in 1..Len(ns)}

RECURSIVE BfsLayers(_, _, _, _, _)
BfsLayers(frontier, visited, d, dest, others) ==
    IF dest \in frontier THEN d
    ELSE IF frontier = {} THEN -1
    ELSE LET next == (UNION {Successors(c, others) : c \in frontier}) \ visited
         IN  BfsLayers(next, visited \cup next, d + 1, dest, others)

BfsDistance(origin, dest, others) == BfsLayers({origin}, {origin}, 0, dest, others)

ManhattanDistance(a, b) ==
    (IF a[1] < b[1] THEN b[1] - a[1] ELSE a[1] - b[1])
    + (IF a[2] < b[2] THEN b[2] - a[2] ELSE a[2] - b[2])

\* C2: a returned path has the length of a shortest route in the graph of
\* get_valid_neighbors (reference breadth-first search), which is never less than
\* the Manhattan distance and equals it when a direct route exists
C2_ShortestPath ==
    astar.done =>
        LET d == BfsDistance(pf.origin, pf.dest, pf.others)
        IN  d > 0 => /\ Len(astar.result) = d
                     /\ Len(astar.result) >= ManhattanDistance(pf.origin, pf.dest)

C2_Witness ==
    /\ astar.done
    /\ Len(astar.result) >= 3
    /\ Len(astar.result) > ManhattanDistance(pf.origin, pf.dest)
    /\ pf.others # {}

-----------------------------------------------------------------------------
(* Pathfinder properties *)

NoRepeat(s) == \A i, j \in 1..Len(s) : i # j => s[i] # s[j]

ExpandedCells == {astar.expanded[i] : i \in 1..Len(astar.expanded)}

\* the direction of the unit move from cell a to the 4-adjacent cell b
MoveDir(a, b) ==
    CASE b[1] > a[1] -> "Right" [] b[1] < a[1] -> "Left"
      [] b[2] > a[2] -> "Up" [] b[2] < a[2] -> "Down" [] OTHER -> "None"

Adjacent4(a, b) == ManhattanDistance(a, b) = 1

\* C3: the search terminates on every map (also with cycles), never expands a
\* cell twice, and returns the empty sequence when the destination cannot be
\* reached
C3_Terminates ==
    /\ <>(astar.done)
    /\ [](NoRepeat(astar.expanded))
    /\ [](astar.done /\ BfsDistance(pf.origin, pf.dest, pf.others) = -1
            => astar.result = <<>>)

C3_Witness ==
    /\ astar.done
    /\ astar.result = <<>>
    /\ pf.origin # pf.dest
    /\ BfsDistance(pf.origin, pf.dest, pf.others) = -1
    /\ Len(astar.expanded) >= 4
    /\ astar.counter >= Len(astar.expanded)

\* C4 as claimed: every transition out of an expanded cell goes to a road or
\* light whose flow equals the direction of the move, or to a destination
C4_FlowEqualsMove ==
    \A c \in ExpandedCells : \A n \in Successors(c, pf.others) :
        \/ IsRoadLike(n) /\ city.dir[n] = MoveDir(c, n)
        \/ city.kind[n] = "Destination"

\* C4 amended: every transition out of an expanded cell goes to a 4-adjacent
\* cell hosting a Road, Traffic_Light or Destination; out of a Destination cell
\* a Road/Traffic_Light target's flow equals the direction of the move
C4_TargetsAmended ==
    \A c \in ExpandedCells : \A n \in Successors(c, pf.others) :
        /\ Adjacent4(c, n)
        /\ city.kind[n] \in {"Road", "Traffic_Light", "Destination"}
        /\ (city.kind[c] = "Destination" /\ IsRoadLike(n))
              => city.dir[n] = MoveDir(c, n)

C4_Witness ==
    /\ \E c \in ExpandedCells : \E n \in Successors(c, pf.others) :
          city.kind[c] = "Destination" /\ IsRoadLike(n)
    /\ \E c \in ExpandedCells : \E n \in Successors(c, pf.others) :
          IsRoadLike(c) /\ IsRoadLike(n) /\ city.dir[n] # MoveDir(c, n)

\* C6: a Destination that is free (no obstacle, no other car) is a successor of
\* every adjacent expanded cell that hosts a Road, Traffic_Light or Destination
C6_DestinationFromAnySide ==
    \A c \in ExpandedCells : \A d \in Dirs :
        LET n == Shift(c, d)
        IN  (/\ city.kind[c] \in {"Road", "Traffic_Light", "Destination"}
             /\ InBounds(n)
             /\ city.kind[n] = "Destination"
             /\ n \notin pf.others)
            => n \in Successors(c, pf.others)

-----------------------------------------------------------------------------
(* Simulation properties *)

CarsAt(c) == {j \in onGrid : car[j].cell = c}

\* the agent whose step the transition is
Stepped(i) == i \in pending.cars /\ i \notin pending'.cars

\* C1: at the end of every tick no two cars (Car or drunkDriver) share a cell
\* that is not a Destination
C1_NoSharedCell ==
    phase = "idle" =>
        \A i, j \in onGrid :
            (i # j /\ car[i].cell = car[j].cell)
                => city.kind[car[i].cell] = "Destination"

\* a tick has ended in which a car aimed at a cell held by another car
C1_Witness ==
    /\ phase = "idle"
    /\ steps_count > 0
    /\ last.branch \in {"blocked", "crash_car"}
    /\ \E j \in onGrid : j # last.agent /\ car[j].cell = last.target
    /\ \E i, j \in onGrid : car[i].kind = "Car" /\ car[j].kind = "drunkDriver"

\* C5: no car stands on an Obstacle or outside the grid, in any state
C5_NoCarOnObstacle ==
    \A i \in onGrid :
        /\ 0 <= car[i].cell[1] /\ car[i].cell[1] < city.w
        /\ 0 <= car[i].cell[2] /\ car[i].cell[2] < city.h
        /\ city.kind[car[i].cell] # "Obstacle"

\* a drunkDriver aimed at an Obstacle and was refused
C5_Witness ==
    /\ last.agent \in onGrid
    /\ last.branch \in {"blocked", "crash_obstacle"}
    /\ city.kind[last.target] = "Obstacle"
    /\ car[last.agent].kind = "drunkDriver"

\* C7: the spawn step of a tick either leaves cars, grid occupancy and
\* cars_spawned as they were, or adds exactly one car, on a free spawn point
\* from which the reference search finds a route of nonzero length to the
\* car's destination
C7_SpawnOnlyWithRoute ==
    [][(phase = "idle" /\ phase' = "agents") =>
          \/ /\ car' = car /\ onGrid' = onGrid /\ carsList' = carsList
             /\ cars_spawned' = cars_spawned
          \/ \E n \in onGrid' \ onGrid :
               /\ onGrid' = onGrid \cup {n}
               /\ carsList' = carsList \cup {n}
               /\ cars_spawned' = cars_spawned + 1
               /\ \A i \in onGrid : car'[i] = car[i]
               /\ car'[n].cell \in SpawnPoints
               /\ CarsAt(car'[n].cell) = {}
               /\ BfsDistance(car'[n].cell, car'[n].destination,
                              {car[j].cell : j \in onGrid}) > 0
      ]_vars

\* two spawn ticks have passed: one created a car, the other returned None
C7_Witness ==
    /\ phase = "agents"
    /\ last = NoLast
    /\ steps_count = 2 * params.spawn_interval
    /\ cars_spawned = 1
    /\ Cardinality(onGrid) = 1

\* C8: a Car standing on a Traffic_Light that is red when the Car steps does
\* not change cell in that step
C8_RedLightHolds ==
    [][\A i \in DOMAIN car :
          (/\ Stepped(i)
           /\ car[i].kind = "Car"
           /\ city.kind[car[i].cell] = "Traffic_Light"
           /\ lights[car[i].cell] = FALSE)
          => car'[i].cell = car[i].cell
      ]_vars

\* a Car with a route has just been held by the red light of its cell
C8_Witness ==
    /\ last.agent \in onGrid
    /\ last.branch = "red"
    /\ car[last.agent].kind = "Car"
    /\ car[last.agent].path # <<>>
    /\ car[last.agent].waiting_at_light
    /\ city.kind[car[last.agent].cell] = "Traffic_Light"
    /\ lights[car[last.agent].cell] = FALSE

\* C9: after a successful collision roll against a car, the mover and the
\* occupant of the target cell are both crashed with the countdown of 10
C9_BothCrashed ==
    last.branch = "crash_car" =>
        \A j \in onGrid :
            (j = last.agent \/ car[j].cell = last.target)
                => car[j].crashed /\ car[j].crash_recovery_steps = 10

\* C10: among rule-following cars whose stored paths begin with the same free
\* cell, the one that steps first enters the cell, and one that steps after a
\* car entered the cell in this tick stays where it is
C10_FirstMoverWins ==
    [][\A a \in DOMAIN car :
          (/\ Stepped(a)
           /\ car[a].kind = "Car"
           /\ car[a].crash_recovery_steps = 0
           /\ car[a].cell # car[a].destination
           /\ car[a].path # <<>>)
          =>
          LET x == Head(car[a].path)
              contenders == {b \in pending.cars \ {a} :
                                /\ car[b].kind = "Car"
                                /\ car[b].path # <<>>
                                /\ Head(car[b].path) = x}
              redHere == /\ city.kind[car[a].cell] = "Traffic_Light"
                         /\ lights[car[a].cell] = FALSE
          IN  /\ (CarsAt(x) = {} /\ contenders # {} /\ ~redHere)
                    => car'[a].cell = x
              /\ (\E b \in moved \ {a} : car[b].cell = x)
                    => car'[a].cell = car[a].cell
      ]_vars

\* both orders of one contention have a state like this: a car entered the
\* cell in this tick, and the other car, still holding the cell as the head of
\* its path, stepped after it and stayed
C10_Witness ==
    /\ last.agent \in onGrid
    /\ last.branch = "blocked"
    /\ car[last.agent].kind = "Car"
    /\ car[last.agent].path # <<>>
    /\ Head(car[last.agent].path) = last.target
    /\ last.agent \notin moved
    /\ \E b \in moved : car[b].cell = last.target /\ car[b].kind = "Car"
    /\ city.kind[last.target] # "Destination"

-----------------------------------------------------------------------------
(* Gridlock-avoidance state machine (spec section 4.2).  The agent variant    *)
(* that implements it (CarMode, imported by app.py) is not among the source   *)
(* files, so the machine is modelled from its specification.  The blockage    *)
(* of the destination and the "safe to wait" verdict are inputs.              *)

MAX_WAIT_STEPS == 5
DESTINATION_CHECK_INTERVAL == 10

Min(a, b) == IF a < b THEN a ELSE b

\* GridlockTick where the re-check leaves CIRCULAR without testing the blockage
GridlockTickBlindRecheck(g, safe) ==
    LET aged == [g EXCEPT !.clear_for =
                    IF g.blocked THEN 0
                    ELSE Min(g.clear_for + 1, DESTINATION_CHECK_INTERVAL + 1)]
    IN  CASE g.mode = "NORMAL" ->
               IF ~g.blocked THEN aged
               ELSE IF safe THEN [aged EXCEPT !.mode = "WAITING", !.waited = 0]
               ELSE [aged EXCEPT !.mode = "CIRCULAR", !.circular_ticks = 0]
          [] g.mode = "WAITING" ->
               IF ~g.blocked THEN [aged EXCEPT !.mode = "NORMAL", !.waited = 0]
               ELSE IF g.waited + 1 >= MAX_WAIT_STEPS \/ ~safe
               THEN [aged EXCEPT !.mode = "CIRCULAR", !.waited = 0, !.circular_ticks = 0]
               ELSE [aged EXCEPT !.waited = g.waited + 1]
          [] OTHER ->
               IF (g.circular_ticks + 1) % DESTINATION_CHECK_INTERVAL = 0
               THEN [aged EXCEPT !.mode = "NORMAL", !.circular_ticks = 0]
               ELSE [aged EXCEPT !.circular_ticks =
                        (g.circular_ticks + 1) % DESTINATION_CHECK_INTERVAL]

\* one tick of the car: the transition table of the state machine
GridlockTick(g, safe) ==
    LET aged == [g EXCEPT !.clear_for =
                    IF g.blocked THEN 0
                    ELSE Min(g.clear_for + 1, DESTINATION_CHECK_INTERVAL + 1)]
    IN  CASE g.mode = "NORMAL" ->
               IF ~g.blocked THEN aged
               ELSE IF safe THEN [aged EXCEPT !.mode = "WAITING", !.waited = 0]
               ELSE [aged EXCEPT !.mode = "CIRCULAR", !.circular_ticks = 0]
          [] g.mode = "WAITING" ->
               IF ~g.blocked THEN [aged EXCEPT !.mode = "NORMAL", !.waited = 0]
               ELSE IF g.waited + 1 >= MAX_WAIT_STEPS \/ ~safe
               THEN [aged EXCEPT !.mode = "CIRCULAR", !.waited = 0, !.circular_ticks = 0]
               ELSE [aged EXCEPT !.waited = g.waited + 1]
          [] OTHER ->
               IF (g.circular_ticks + 1) % DESTINATION_CHECK_INTERVAL = 0 /\ ~g.blocked
               THEN [aged EXCEPT !.mode = "NORMAL", !.circular_ticks = 0]
               ELSE [aged EXCEPT !.circular_ticks =
                        (g.circular_ticks + 1) % DESTINATION_CHECK_INTERVAL]

notGridlock == <<city, memory, lights, car, onGrid, carsList, params, steps_count, cars_spawned,
                 cars_reached_destination, running, phase, pending, moved, last,
                 limits, pf, astar>>

GridlockStep ==
    /\ \E safe \in BOOLEAN : gridlock' = GridlockTick(gridlock, safe)
    /\ UNCHANGED notGridlock

\* an obstruction appears on the approach; it may be one that never goes away
GridlockBlock ==
    /\ ~gridlock.blocked
    /\ \E forever \in BOOLEAN :
          gridlock' = [gridlock EXCEPT !.blocked = TRUE, !.permanent = forever,
                                       !.clear_for = 0]
    /\ UNCHANGED notGridlock

\* a temporary obstruction goes away
GridlockClear ==
    /\ gridlock.blocked
    /\ ~gridlock.permanent
    /\ gridlock' = [gridlock EXCEPT !.blocked = FALSE, !.clear_for = 0]
    /\ UNCHANGED notGridlock

InitGridlock ==
    /\ city = LoadMap(MapCross)
    /\ params = DefaultParams
    /\ limits = [steps |-> 0, cars |-> 0]
    /\ ModelInit
    /\ pf = NoPf
    /\ astar = NoAStar

NextGridlock == GridlockStep \/ GridlockBlock \/ GridlockClear

SpecGridlock == InitGridlock /\ [][NextGridlock]_vars /\ WF_vars(GridlockStep)

\* C11: a car whose destination is permanently blocked eventually is in mode
\* CIRCULAR and from then on stays in it (never NORMAL again); once a blockage
\* has been clear for DESTINATION_CHECK_INTERVAL ticks the car is in NORMAL
C11_GridlockModes ==
    /\ [](gridlock.permanent => <>(gridlock.mode = "CIRCULAR"))
    /\ []((gridlock.permanent /\ gridlock.mode = "CIRCULAR")
              => [](gridlock.mode = "CIRCULAR"))
    /\ [](gridlock.clear_for >= DESTINATION_CHECK_INTERVAL
              => gridlock.mode = "NORMAL")

\* a permanently blocked car circling, on the tick before a re-check
C11_Witness ==
    /\ gridlock.permanent
    /\ gridlock.mode = "CIRCULAR"
    /\ gridlock.circular_ticks = DESTINATION_CHECK_INTERVAL - 1

-----------------------------------------------------------------------------
(* Corridor runs: one row of 10 cells flowing left to right, the spawn point *)
(* at the west edge and the Destination at the east edge                     *)

\*   >>>>>>>>>D
CorridorPlain == << <<">", ">", ">", ">", ">", ">", ">", ">", ">", "D">> >>

\*   >>>>S>>>>D   and   >>>>>S>>>D : a light that starts red at the midpoint
CorridorLight4 == << <<">", ">", ">", ">", "S", ">", ">", ">", ">", "D">> >>
CorridorLight5 == << <<">", ">", ">", ">", ">", "S", ">", ">", ">", "D">> >>

\*   >>s>>>S>>D : two lights with different periods and initial states
CorridorTwoLights == << <<">", ">", "s", ">", ">", ">", "S", ">", ">", "D">> >>

CorridorMaps == {CorridorPlain, CorridorLight4, CorridorLight5, CorridorTwoLights}

\* timeToChange of the "S" lights of the corridor maps
CorridorLightPeriod == 4

CorridorCity(m) ==
    LET c == LoadMap(m)
    IN  [c EXCEPT !.period = [x \in DOMAIN c.period |->
                                 IF c.kind[x] = "Traffic_Light" /\ ~c.green0[x]
                                 THEN CorridorLightPeriod ELSE c.period[x]]]

\* values given to spawn_interval (10 is the model's own)
CorridorIntervals == 10..13

InitCorridor ==
    /\ city \in {CorridorCity(m) : m \in CorridorMaps}
    /\ params \in {[NormalProfile EXCEPT !.spawn_interval = i] : i \in CorridorIntervals}
    /\ limits = [steps |-> MaxCorridorTicks, cars |-> MaxCorridorCars]
    /\ ModelInit
    /\ pf = NoPf
    /\ astar = NoAStar

SpecCorridor == InitCorridor /\ [][Next]_vars

SpecCorridorFair == SpecCorridor /\ WF_vars(Next)

\* the only car of the run so far is car 1, spawned in tick spawn_interval
FirstCarAlone == cars_spawned = 1 /\ DOMAIN car = {1}

\* C12: on the corridor without lights the single Car has advanced exactly one
\* cell for each tick since its spawn (its steps), is still on the grid through
\* its 9th step, and after its 9th step stands on its destination at the east edge
C12_OneCellPerStep ==
    (/\ LightCells = {}
     /\ phase = "idle"
     /\ cars_spawned = 1
     /\ steps_count >= params.spawn_interval
     /\ steps_count <= params.spawn_interval + 8)
    => LET taken == steps_count - params.spawn_interval + 1
       IN  /\ 1 \in onGrid
           /\ car[1].kind = "Car"
           /\ car[1].cell = <<taken, 0>>
           /\ (taken = 9) = (car[1].cell = car[1].destination)

\* the Car stands on the destination right after its 9th step
C12_Witness ==
    /\ LightCells = {}
    /\ phase = "idle"
    /\ FirstCarAlone
    /\ steps_count = params.spawn_interval + 8
    /\ car[1].cell = <<9, 0>>
    /\ car[1].destination = <<9, 0>>
    /\ city.w = 10

\* C13: on the corridors with a light, a Car stepping on the light cell stays
\* there with waiting_at_light set when the light is red, and moves to the next
\* cell when the light is green; and a Car eventually stands on its destination
C13_WaitsThenResumes ==
    /\ [][\A i \in DOMAIN car :
             (/\ Stepped(i)
              /\ car[i].kind = "Car"
              /\ city.kind[car[i].cell] = "Traffic_Light")
             => IF lights[car[i].cell]
                THEN /\ car'[i].cell = <<car[i].cell[1] + 1, 0>>
                     /\ ~car'[i].waiting_at_light
                ELSE /\ car'[i].cell = car[i].cell
                     /\ car'[i].waiting_at_light
         ]_vars
    /\ <>(\E i \in onGrid : car[i].cell = car[i].destination)

\* the single Car held on the midpoint light of period 4 while it is red
C13_Witness ==
    /\ FirstCarAlone
    /\ last.agent = 1 /\ last.branch = "red"
    /\ car[1].cell \in {<<4, 0>>, <<5, 0>>}
    /\ city.period[car[1].cell] = 4
    /\ Cardinality(LightCells) = 1
    /\ ~lights[car[1].cell]
    /\ car[1].waiting_at_light

\* the ticks k of 1..n at which a light of period p toggles
FlipCount(n, p) == Cardinality({k \in 1..n : k % p = 0})

\* C14: after tick n every light is in its initial state flipped once for each
\* k in 1..n with k mod timeToChange = 0
C14_LightSchedule ==
    phase = "idle" =>
        \A c \in LightCells :
            lights[c] = IF FlipCount(steps_count, city.period[c]) % 2 = 0
                        THEN city.green0[c] ELSE ~city.green0[c]

\* two lights of different periods in different states, with a car on the road
C14_Witness ==
    /\ phase = "idle"
    /\ steps_count >= 12
    /\ onGrid # {}
    /\ \E c, d \in LightCells :
          /\ city.period[c] # city.period[d]
          /\ FlipCount(steps_count, city.period[c]) = 4
          /\ FlipCount(steps_count, city.period[d]) = 3

-----------------------------------------------------------------------------
(* One erratic driver with each behaviour roll certain or impossible         *)

\* every roll decided (0 or 1.0); the first spawn is late enough for the
\* driver to be alone for a crash recovery
DrunkProfiles ==
    {[normal_spawn_ratio |-> 0, normal_crash_prob |-> 0, drunk_crash_prob |-> c,
      drunk_ignore_light_prob |-> 0, drunk_wrong_way_prob |-> w,
      drunk_forget_route_prob |-> f, drunk_zigzag_intensity |-> 0,
      drunk_random_move_prob |-> r, spawn_interval |-> 13] :
        c \in {0, 100}, w \in {0, 100}, f \in {0, 100}, r \in {0, 100}}

InitDrunk ==
    /\ city = LoadMap(MapCross)
    /\ params \in DrunkProfiles
    /\ limits = [steps |-> MaxDrunkTicks, cars |-> MaxDrunkCars]
    /\ ModelInit
    /\ pf = NoPf
    /\ astar = NoAStar

SpecDrunk == InitDrunk /\ [][Next]_vars

\* a drunkDriver's step that reaches the behaviour layers (no crash recovery,
\* not yet on its destination)
DrunkActing(i) ==
    /\ Stepped(i)
    /\ car[i].kind = "drunkDriver"
    /\ car[i].crash_recovery_steps = 0
    /\ car[i].cell # car[i].destination

\* what a refused or impossible move attempt of any layer leaves in "last"
RefusedBranches == {"crash_obstacle", "crash_car", "blocked", "none"}

\* the layers below the forgotten-route ones, for rolls that are certain or
\* impossible: wrong-way, then random move, then path following
LowerLayers(i) ==
    IF car[i].wrong_way_prob = 100
    THEN last'.branch \in {"wrongway"} \cup RefusedBranches
    ELSE IF car[i].random_move_prob = 100
    THEN last'.branch \in {"random"} \cup RefusedBranches
    ELSE last'.branch \in {"path", "zigzag", "nopath", "red"} \cup RefusedBranches

ForgetLayer(i) ==
    /\ last'.branch = "forget"
    /\ car'[i].random_steps_remaining \in 3..5
    /\ car'[i].path = <<>>
    /\ car'[i].cell = car[i].cell

RunLayer(i) ==
    /\ last'.branch \in {"random_run"} \cup RefusedBranches
    /\ car'[i].random_steps_remaining = car[i].random_steps_remaining - 1

\* C15 as claimed: the forgot-route roll comes first, the continuation of a
\* run in progress second, then wrong-way, random move, path following
C15_ForgetRollFirst ==
    [][\A i \in DOMAIN car :
          DrunkActing(i) =>
              IF car[i].forget_route_prob = 100 THEN ForgetLayer(i)
              ELSE IF car[i].random_steps_remaining > 0 THEN RunLayer(i)
              ELSE LowerLayers(i)
      ]_vars

\* C15 amended: the continuation of a run in progress comes first, the
\* forgot-route roll second, then wrong-way, random move, path following
C15_RunCheckFirst ==
    [][\A i \in DOMAIN car :
          DrunkActing(i) =>
              IF car[i].random_steps_remaining > 0 THEN RunLayer(i)
              ELSE IF car[i].forget_route_prob = 100 THEN ForgetLayer(i)
              ELSE LowerLayers(i)
      ]_vars

\* a driver whose forgot-route roll is certain has just made a step of a run
\* in progress, and the run is not over
C15_Witness ==
    /\ last.agent \in onGrid
    /\ last.branch = "random_run"
    /\ car[last.agent].forget_route_prob = 100
    /\ car[last.agent].wrong_way_prob = 100
    /\ car[last.agent].random_steps_remaining > 0

\* C16 as claimed: with forget_route_prob = 1.0 every step inside a window
\* moves the driver to a neighbouring cell and leaves its path empty
C16_MovesEveryTick ==
    [][\A i \in DOMAIN car :
          (DrunkActing(i) /\ car[i].forget_route_prob = 100
                          /\ car[i].random_steps_remaining > 0)
          => /\ car'[i].cell # car[i].cell
             /\ Adjacent4(car[i].cell, car'[i].cell)
             /\ car'[i].path = <<>>
      ]_vars

\* C16 amended: with forget_route_prob = 1.0 a step outside a window opens one
\* of 3 to 5 steps without moving; a step inside a window draws an in-bounds
\* 4-neighbour and moves there unless it holds an Obstacle or another car, in
\* which case the driver stays; the path stays empty throughout
C16_RandomWindow ==
    [][\A i \in DOMAIN car :
          (DrunkActing(i) /\ car[i].forget_route_prob = 100)
          => IF car[i].random_steps_remaining = 0
             THEN /\ car'[i].random_steps_remaining \in 3..5
                  /\ car'[i].cell = car[i].cell
                  /\ car'[i].path = <<>>
             ELSE LET drawn == last'.target
                      held == \/ city.kind[drawn] = "Obstacle"
                              \/ \E j \in onGrid \ {i} : car[j].cell = drawn
                  IN  /\ car'[i].random_steps_remaining
                            = car[i].random_steps_remaining - 1
                      /\ car[i].path = <<>> /\ car'[i].path = <<>>
                      /\ Adjacent4(car[i].cell, drawn)
                      /\ car'[i].cell = IF held THEN car[i].cell ELSE drawn
      ]_vars

\* inside a window the driver drew an Obstacle cell and stayed where it was
C16_Witness ==
    /\ last.agent \in onGrid
    /\ car[last.agent].forget_route_prob = 100
    /\ last.branch \in {"blocked", "crash_obstacle"}
    /\ city.kind[last.target] = "Obstacle"
    /\ car[last.agent].random_steps_remaining \in 1..4
    /\ car[last.agent].path = <<>>

\* C17 as claimed: the step that brings the countdown to zero removes the car
C17_RemovedOnExpiry ==
    [][\A i \in DOMAIN car :
          (Stepped(i) /\ car[i].crash_recovery_steps = 1) => i \notin onGrid'
      ]_vars

\* C17 amended: a step during crash recovery only counts down; the step that
\* brings the countdown to zero clears the crashed flag and the car stays on
\* the grid, on its cell
C17_ResumesOnExpiry ==
    [][\A i \in DOMAIN car :
          (Stepped(i) /\ car[i].crash_recovery_steps > 0)
          => /\ i \in onGrid'
             /\ car'[i].cell = car[i].cell
             /\ car'[i].crash_recovery_steps = car[i].crash_recovery_steps - 1
             /\ car'[i].crashed = (car[i].crashed /\ car[i].crash_recovery_steps > 1)
      ]_vars

\* a car whose countdown has just expired, on the grid and no longer crashed
C17_Witness ==
    /\ last.agent \in onGrid
    /\ last.branch = "recover"
    /\ car[last.agent].crash_recovery_steps = 0
    /\ ~car[last.agent].crashed
    /\ car[last.agent].cell # NoCell

\* C18: running changes only at the end of a tick, and there it becomes FALSE
\* exactly when every spawn point holds a car and model.cars is empty
C18_StopsOnlyWhenExhausted ==
    [][/\ (running' # running) => (phase = "agents" /\ phase' = "idle")
       /\ (phase = "agents" /\ phase' = "idle")
            => running' = IF /\ \A sc \in SpawnPoints : \E j \in onGrid : car[j].cell = sc
                             /\ carsList' = {}
                          THEN FALSE ELSE running
      ]_vars

\* a run that has stopped
C18_Witness ==
    /\ ~running
    /\ phase = "idle"
    /\ steps_count >= 1
    /\ carsList = {}
    /\ \A sc \in SpawnPoints : \E j \in onGrid : car[j].cell = sc

-----------------------------------------------------------------------------
(* server.py: /updateDrunkParams and /updateNormalParams.  The Flask server  *)
(* handles requests in threads, so a handler can run between two agent steps *)
(* of a tick, and between the construction of a car in spawn_car and         *)
(* "self.cars.append(car)".                                                  *)

DrunkKeys == {"drunk_crash_prob", "drunk_ignore_light_prob",
              "drunk_forget_route_prob", "drunk_zigzag_intensity"}

NormalKeys == {"normal_spawn_ratio", "normal_crash_prob"}

\* request bodies: a function from the keys present to their values
DrunkRequests ==
    {[k \in {"drunk_crash_prob", "drunk_ignore_light_prob"} |-> 100],
     [k \in {"drunk_forget_route_prob", "drunk_zigzag_intensity"} |-> 100]}

NormalRequests ==
    {[k \in {"normal_crash_prob"} |-> 100],
     [k \in {"normal_spawn_ratio"} |-> 100]}

\* "if '<key>' in data: trafficModel.<key> = data['<key>']"
WithRequest(p, data, keys) ==
    [k \in DOMAIN p |-> IF k \in keys /\ k \in DOMAIN data THEN data[k] ELSE p[k]]

\* the loop of updateDrunkParams over trafficModel.cars
DrunkParamsCopied(cs, listed, p) ==
    [i \in DOMAIN cs |->
        IF i \in listed /\ cs[i].kind = "drunkDriver"
        THEN [cs[i] EXCEPT !.crash_prob = p.drunk_crash_prob,
                           !.ignore_light_prob = p.drunk_ignore_light_prob,
                           !.forget_route_prob = p.drunk_forget_route_prob,
                           !.zigzag_intensity = p.drunk_zigzag_intensity]
        ELSE cs[i]]

\* the loop of updateNormalParams, run only when the key is in the request
NormalParamsCopied(cs, listed, p, data) ==
    [i \in DOMAIN cs |->
        IF "normal_crash_prob" \in DOMAIN data /\ i \in listed /\ cs[i].kind = "Car"
        THEN [cs[i] EXCEPT !.crash_prob = p.normal_crash_prob]
        ELSE cs[i]]

\* the handler of one request, applied to the model's parameters and cars
Handled(p, cs, listed, data) ==
    IF data \in DrunkRequests
    THEN LET q == WithRequest(p, data, DrunkKeys)
         IN  [params |-> q, car |-> DrunkParamsCopied(cs, listed, q)]
    ELSE LET q == WithRequest(p, data, NormalKeys)
         IN  [params |-> q, car |-> NormalParamsCopied(cs, listed, q, data)]

UpdateDrunkParams ==
    \E data \in DrunkRequests :
        LET h == Handled(params, car, carsList, data)
        IN  /\ params' = h.params
            /\ car' = h.car
            /\ UNCHANGED <<city, gridlock, memory, lights, onGrid, carsList, steps_count,
                           cars_spawned, cars_reached_destination, running, phase,
                           pending, moved, last, limits, pf, astar>>

UpdateNormalParams ==
    \E data \in NormalRequests :
        LET h == Handled(params, car, carsList, data)
        IN  /\ params' = h.params
            /\ car' = h.car
            /\ UNCHANGED <<city, gridlock, memory, lights, onGrid, carsList, steps_count,
                           cars_spawned, cars_reached_destination, running, phase,
                           pending, moved, last, limits, pf, astar>>

\* CityModel.step up to the shuffle, with a request handled after spawn_car
\* constructed the car and before it appended the car to self.cars
BeginTickPreempted ==
    /\ phase = "idle"
    /\ steps_count < limits.steps
    /\ (steps_count + 1) % params.spawn_interval = 0
    /\ Cardinality(DOMAIN car) < limits.cars
    /\ steps_count' = steps_count + 1
    /\ \E sc \in SpawnPoints, dc \in Destinations, kind \in SpawnKinds,
          data \in DrunkRequests \cup NormalRequests :
         LET h == Handled(params, car, carsList, data)
         IN  /\ ~AttemptFails(sc, dc)
             /\ params' = h.params
             /\ car' = [i \in (DOMAIN car) \cup {FreeId} |->
                          IF i = FreeId THEN SpawnedCar(kind, sc, dc) ELSE h.car[i]]
             /\ onGrid' = onGrid \cup {FreeId}
             /\ carsList' = carsList \cup {FreeId}
             /\ cars_spawned' = cars_spawned + 1
    /\ phase' = "agents"
    /\ pending' = [cars |-> onGrid', lights |-> LightCells]
    /\ moved' = {}
    /\ last' = NoLast
    /\ UNCHANGED <<city, gridlock, memory, lights, cars_reached_destination, running,
                   limits, pf, astar>>

\* both classes spawn, every roll impossible until a request changes it
ServerProfile ==
    [normal_spawn_ratio |-> 50, normal_crash_prob |-> 0, drunk_crash_prob |-> 0,
     drunk_ignore_light_prob |-> 0, drunk_wrong_way_prob |-> 0,
     drunk_forget_route_prob |-> 0, drunk_zigzag_intensity |-> 0,
     drunk_random_move_prob |-> 0, spawn_interval |-> 1]

InitServer ==
    /\ city = LoadMap(MapCross)
    /\ params = ServerProfile
    /\ limits = [steps |-> MaxServerTicks, cars |-> MaxServerCars]
    /\ ModelInit
    /\ pf = NoPf
    /\ astar = NoAStar

NextServer ==
    \/ Next
    \/ BeginTickPreempted
    \/ UpdateDrunkParams
    \/ UpdateNormalParams

SpecServer == InitServer /\ [][NextServer]_vars

\* C19: every car of model.cars holds the model's current value of each
\* parameter of its class
C19_ParamsPropagated ==
    \A i \in carsList \cap DOMAIN car :
        IF car[i].kind = "Car"
        THEN car[i].crash_prob = params.normal_crash_prob
        ELSE /\ car[i].crash_prob = params.drunk_crash_prob
             /\ car[i].ignore_light_prob = params.drunk_ignore_light_prob
             /\ car[i].wrong_way_prob = params.drunk_wrong_way_prob
             /\ car[i].forget_route_prob = params.drunk_forget_route_prob
             /\ car[i].zigzag_intensity = params.drunk_zigzag_intensity
             /\ car[i].random_move_prob = params.drunk_random_move_prob

-----------------------------------------------------------------------------
(* Obstacle memory and dynamic weight (spec section 4.1, "Dynamic weight     *)
(* term"): the memory of one car over the cells it contends for, as a map    *)
(* cell -> [weight, seen], and the clock the remembered weights decay by.    *)

CAR_WEIGHT == 8
ACCIDENT_WEIGHT == 32

\* DECAY_RATE in percent
DECAY_RATE == 50

\* the cells the car tries to enter
MemoryCells == {<<1, 1>>, <<2, 1>>}

\* MarkWeight marking CAR_WEIGHT whatever refused the move
MarkWeightCarOnly(what) == CAR_WEIGHT

\* the weight marked for a refused move: by what was present on the cell
MarkWeight(what) == IF what = "accident" THEN ACCIDENT_WEIGHT ELSE CAR_WEIGHT

\* remembered_weight * (1 - DECAY_RATE)^ticks_elapsed, in whole units
RECURSIVE DecayedWeight(_, _)
DecayedWeight(weight, elapsed) ==
    IF elapsed = 0 THEN weight
    ELSE (DecayedWeight(weight, elapsed - 1) * (100 - DECAY_RATE)) \div 100

\* decayed_memory(cell): 0 for a cell without an entry
DecayedMemory(m, c) ==
    IF c \in DOMAIN m.entries
    THEN DecayedWeight(m.entries[c].weight, m.now - m.entries[c].seen)
    ELSE 0

\* weight(cell) = presence of another car + presence of an accident + memory
DynamicWeight(m, c, cars, accidents) ==
    (IF c \in cars THEN CAR_WEIGHT ELSE 0)
    + (IF c \in accidents THEN ACCIDENT_WEIGHT ELSE 0)
    + DecayedMemory(m, c)

notMemory == <<city, gridlock, lights, car, onGrid, carsList, params, steps_count,
               cars_spawned, cars_reached_destination, running, phase, pending,
               moved, last, limits, pf, astar>>

\* a move onto cell c is refused because of a vehicle or an accident on it
MemoryRefuse ==
    /\ \E c \in MemoryCells, what \in {"car", "accident"} :
         memory' = [memory EXCEPT
             !.entries = [d \in (DOMAIN memory.entries) \cup {c} |->
                            IF d = c THEN [weight |-> MarkWeight(what), seen |-> memory.now]
                            ELSE memory.entries[d]],
             !.event = what, !.cell = c,
             !.cars = {}, !.accidents = {}, !.used = <<>>]
    /\ UNCHANGED notMemory

\* the clock advances; entries whose decayed weight is below 1 are pruned
MemoryTick ==
    /\ memory.now < MaxMemoryTicks
    /\ memory' = [memory EXCEPT
          !.now = memory.now + 1,
          !.entries = [d \in {e \in DOMAIN memory.entries :
                                 DecayedWeight(memory.entries[e].weight,
                                               memory.now + 1 - memory.entries[e].seen) >= 1}
                         |-> memory.entries[d]],
          !.event = "tick", !.cars = {}, !.accidents = {}, !.used = <<>>]
    /\ UNCHANGED notMemory

\* a search: the dynamic weight it adds to the cost of entering each cell
\* (cars, accidents and used are locals of the search, dropped by the next event)
MemorySearch ==
    /\ \E cars \in SUBSET MemoryCells, accidents \in SUBSET MemoryCells :
         memory' = [memory EXCEPT
             !.event = "search", !.cars = cars, !.accidents = accidents,
             !.used = [c \in MemoryCells |-> DynamicWeight(memory, c, cars, accidents)]]
    /\ UNCHANGED notMemory

InitMemory ==
    /\ city = LoadMap(MapCross)
    /\ params = DefaultParams
    /\ limits = [steps |-> 0, cars |-> 0]
    /\ ModelInit
    /\ pf = NoPf
    /\ astar = NoAStar

NextMemory == MemoryRefuse \/ MemoryTick \/ MemorySearch

SpecMemory == InitMemory /\ [][NextMemory]_vars

-----------------------------------------------------------------------------
(* Shape of a returned path *)

\* the cell a path step starts from: the origin, then the previous path cell
PathStepFrom(path, i) == IF i = 1 THEN pf.origin ELSE path[i - 1]

\* C22: a non-empty returned path excludes the origin, ends at the destination,
\* and each step (the first one taken from the origin) is offered by
\* get_valid_neighbors: 4-adjacent, in bounds, no Obstacle and no other car on
\* the target
C22_PathIsAChainOfNeighbors ==
    (astar.done /\ astar.result # <<>>) =>
        LET path == astar.result
        IN  /\ \A i \in 1..Len(path) : path[i] # pf.origin
            /\ path[Len(path)] = pf.dest
            /\ \A i \in 1..Len(path) :
                  /\ path[i] \in Successors(PathStepFrom(path, i), pf.others)
                  /\ Adjacent4(PathStepFrom(path, i), path[i])
                  /\ path[i] \in Cells
                  /\ city.kind[path[i]] # "Obstacle"
                  /\ path[i] \notin pf.others

\* a returned route that turns aside because another car stands on the cell
\* ahead of the origin
C22_Witness ==
    /\ astar.done
    /\ Len(astar.result) >= 3
    /\ IsRoadLike(pf.origin)
    /\ Shift(pf.origin, city.dir[pf.origin]) \in pf.others

\* C23: out of an expanded normal road cell no transition enters a Road or
\* Traffic_Light cell by a move opposite to that cell's direction
C23_NeverAgainstFlow ==
    \A c \in ExpandedCells :
        city.kind[c] = "Road" =>
            \A n \in Successors(c, pf.others) :
                IsRoadLike(n) => city.dir[n] # Opposite(MoveDir(c, n))

-----------------------------------------------------------------------------
(* Rule-following cars with a collision probability of 1 (run_tests.py,      *)
(* "Familia B: Normales con Crash", taken to the value where the roll         *)
(* "random() < crash_prob" always succeeds)                                   *)

CrashProfile ==
    [normal_spawn_ratio |-> 100, normal_crash_prob |-> 100, drunk_crash_prob |-> 0,
     drunk_ignore_light_prob |-> 0, drunk_wrong_way_prob |-> 0,
     drunk_forget_route_prob |-> 0, drunk_zigzag_intensity |-> 0,
     drunk_random_move_prob |-> 0, spawn_interval |-> 1]

InitCrash ==
    /\ city \in {LoadMap(m) : m \in {MapTown, MapMerge}}
    /\ params = CrashProfile
    /\ limits = [steps |-> MaxStepsNormal, cars |-> MaxCarsNormal]
    /\ ModelInit
    /\ pf = NoPf
    /\ astar = NoAStar

SpecCrash == InitCrash /\ [][Next]_vars

\* C24: a Car with crash_prob 1 that steps while another car stands on its
\* next path cell makes the collision roll and leaves the step crashed with a
\* recovery countdown of 10
C24_CrashOnOccupied ==
    [][\A i \in DOMAIN car :
          (/\ phase = "agents"
           /\ i \in pending.cars
           /\ i \notin pending'.cars
           /\ car[i].kind = "Car"
           /\ car[i].crash_prob = 100
           /\ car[i].crash_recovery_steps = 0
           /\ car[i].cell # car[i].destination
           /\ car'[i].path # <<>>
           /\ car'[i].cell = car[i].cell
           /\ \E j \in onGrid \ {i} : car[j].cell = Head(car'[i].path))
          => (car'[i].crashed /\ car'[i].crash_recovery_steps = 10)]_vars

-----------------------------------------------------------------------------
(* Crash recovery, arrival *)

\* C25: a crash sets the countdown to 10; every step of a crashed agent leaves
\* all its fields (cell, direction, path, ...) as they were except the
\* countdown, which drops by one, and the crashed flag, which is cleared by the
\* step that brings the countdown to 0 (the 10th); the agent stays on the grid
C25_RecoveryOnlyCountsDown ==
    [][\A i \in DOMAIN car :
          /\ (Stepped(i) /\ ~car[i].crashed /\ car'[i].crashed)
                => car'[i].crash_recovery_steps = 10
          /\ (Stepped(i) /\ car[i].crashed)
                => /\ car[i].crash_recovery_steps \in 1..10
                   /\ i \in onGrid'
                   /\ car'[i] = [car[i] EXCEPT
                         !.crash_recovery_steps = car[i].crash_recovery_steps - 1,
                         !.crashed = (car[i].crash_recovery_steps # 1)]
      ]_vars

\* a crashed driver after the 9th step of its recovery
C25_Witness ==
    /\ last.agent \in onGrid
    /\ last.branch = "recover"
    /\ car[last.agent].crashed
    /\ car[last.agent].crash_recovery_steps = 1

\* C26: a car is removed from the grid exactly by its own step begun outside
\* crash recovery on its destination cell; that step sets reached_destination
\* and moves the car nowhere else; until a car steps it stays on the grid and on
\* its cell
C26_RemovedOnlyOnArrival ==
    [][\A i \in onGrid :
          IF Stepped(i)
          THEN /\ (i \notin onGrid') <=> (/\ car[i].crash_recovery_steps = 0
                                          /\ car[i].cell = car[i].destination)
               /\ (i \notin onGrid') => /\ car'[i].reached_destination
                                        /\ car'[i].cell = NoCell
                                        /\ last'.target = car[i].destination
               /\ (i \in onGrid') => ~car'[i].reached_destination
          ELSE /\ i \in onGrid'
               /\ car'[i].cell = car[i].cell
      ]_vars

\* an erratic driver that reached its destination has just been removed while
\* another car is still on the grid
C26_Witness ==
    /\ last.branch = "arrive"
    /\ last.agent \in DOMAIN car
    /\ last.agent \notin onGrid
    /\ car[last.agent].kind = "drunkDriver"
    /\ car[last.agent].reached_destination
    /\ onGrid # {}

-----------------------------------------------------------------------------
(* Erratic drivers without erratic behaviour (run_tests.py, "Familia C"),    *)
(* mixed with rule-following cars                                            *)

InitSober ==
    /\ city \in {LoadMap(m) : m \in {MapTown, MapMerge}}
    /\ params = ServerProfile
    /\ limits = [steps |-> MaxSoberTicks, cars |-> MaxSoberCars]
    /\ ModelInit
    /\ pf = NoPf
    /\ astar = NoAStar

SpecSober == InitSober /\ [][Next]_vars

\* the part of a step's result that the comparison looks at
StepResult(o) ==
    [cell |-> o.me.cell, direction |-> o.me.direction, path |-> o.me.path,
     reached_destination |-> o.me.reached_destination,
     waiting_at_light |-> o.me.waiting_at_light,
     crashed |-> o.me.crashed, crash_recovery_steps |-> o.me.crash_recovery_steps,
     removed |-> o.removed]

Sober(me) ==
    /\ me.kind = "drunkDriver"
    /\ me.forget_route_prob = 0 /\ me.wrong_way_prob = 0 /\ me.random_move_prob = 0
    /\ me.ignore_light_prob = 0 /\ me.zigzag_intensity = 0

\* C27: a drunkDriver with all erratic probabilities 0 that is about to step
\* can end its step in exactly the results (cell, direction, path, flags) a
\* rule-following Car step ends in from the same state
C27_SoberDrunkStepsLikeCar ==
    \A i \in pending.cars :
        (phase = "agents" /\ Sober(car[i])) =>
            {StepResult(o) : o \in DrunkStepOutcomes(i)}
                = {StepResult(o) : o \in CarStepFrom(i, car[i])}

-----------------------------------------------------------------------------
(* Erratic driver: length of a move, zig-zag side *)

\* C28: a step of a drunkDriver that stays on the grid takes it to a cell within
\* distance 1 of its previous cell on each axis
C28_AtMostOneCell ==
    [][\A i \in DOMAIN car :
          (Stepped(i) /\ car[i].kind = "drunkDriver" /\ i \in onGrid')
          => /\ Abs(car'[i].cell[1] - car[i].cell[1]) <= 1
             /\ Abs(car'[i].cell[2] - car[i].cell[2]) <= 1
      ]_vars

\* the zig-zag roll always succeeds; random moves take the driver off the roads
ZigzagProfile ==
    [normal_spawn_ratio |-> 0, normal_crash_prob |-> 0, drunk_crash_prob |-> 0,
     drunk_ignore_light_prob |-> 100, drunk_wrong_way_prob |-> 0,
     drunk_forget_route_prob |-> 0, drunk_zigzag_intensity |-> 100,
     drunk_random_move_prob |-> 50, spawn_interval |-> 2]

InitZigzag ==
    /\ city = LoadMap(MapCross)
    /\ params = ZigzagProfile
    /\ limits = [steps |-> MaxZigzagTicks, cars |-> MaxZigzagCars]
    /\ ModelInit
    /\ pf = NoPf
    /\ astar = NoAStar

SpecZigzag == InitZigzag /\ [][Next]_vars

\* the step moved the driver along its path, so it went through apply_zigzag
ZigzagCalled == last'.branch \in {"path", "zigzag"}

\* C29: zigzag_state changes only in a step that went through apply_zigzag on
\* a cell hosting a road, and then to the other side; it changes whenever the
\* zig-zag displaced the move, and, the intensity roll being certain, in every
\* such step, displaced or not
C29_ZigzagAlternates ==
    [][\A i \in DOMAIN car :
          (Stepped(i) /\ car[i].kind = "drunkDriver" /\ i \in onGrid')
          => LET flipped == car'[i].zigzag_state # car[i].zigzag_state
                 onRoad == IsRoadLike(car[i].cell)
             IN  /\ flipped => (ZigzagCalled /\ onRoad)
                 /\ car'[i].zigzag_state \in {"left", "right"}
                 /\ last'.branch = "zigzag" => flipped
                 /\ (ZigzagCalled /\ onRoad /\ car[i].zigzag_intensity = 100) => flipped
                 /\ (ZigzagCalled /\ ~onRoad) => ~flipped
      ]_vars

\* a zig-zag that displaced the move to the right-hand side and left the side
\* on "left": the application before it had set the side to "right"
C29_Witness ==
    /\ last.agent \in onGrid
    /\ last.branch = "zigzag"
    /\ car[last.agent].cell # last.target
    /\ car[last.agent].zigzag_state = "left"
    /\ car[last.agent].zigzag_intensity = 100

-----------------------------------------------------------------------------
(* Spawn schedule *)

\* C30: cars_spawned never exceeds floor(steps_count / spawn_interval); it
\* changes only at the start of a tick whose count is a multiple of
\* spawn_interval, by exactly one, and the one new car stands on a spawn point
\* that held no car
C30_SpawnSchedule ==
    /\ [](cars_spawned <= steps_count \div params.spawn_interval)
    /\ [][(cars_spawned' # cars_spawned \/ DOMAIN car' \ DOMAIN car # {}) =>
            /\ phase = "idle" /\ phase' = "agents"
            /\ steps_count' = steps_count + 1
            /\ steps_count' % params.spawn_interval = 0
            /\ cars_spawned' = cars_spawned + 1
            /\ \E n \in DOMAIN car' \ DOMAIN car :
                  /\ DOMAIN car' = DOMAIN car \cup {n}
                  /\ onGrid' = onGrid \cup {n}
                  /\ car'[n].cell \in SpawnPoints
                  /\ \A j \in onGrid : car[j].cell # car'[n].cell
         ]_vars

\* the second car has just been spawned, on tick 4, while the first one is
\* still on the grid
C30_Witness ==
    /\ phase = "agents"
    /\ steps_count = 4
    /\ cars_spawned = 2
    /\ Cardinality(onGrid) = 2
    /\ params.spawn_interval = 2

-----------------------------------------------------------------------------
(* Spawn points *)

EdgeRoads ==
    {c \in Cells : city.kind[c] = "Road"
                   /\ (c[1] \in {0, city.w - 1} \/ c[2] \in {0, city.h - 1})}

\* C31 as claimed: the spawn points are the Road cells on an edge whose flow
\* points outward across that edge (the cell ahead is off the map)
C31_FlowPointsOutward ==
    SpawnPoints = {c \in EdgeRoads : ~InBounds(Shift(c, city.dir[c]))}

\* C31 amended: the spawn points are the Road cells on an edge whose flow
\* points into the map from that edge (the cell behind is off the map)
C31_FlowPointsInward ==
    SpawnPoints = {c \in EdgeRoads : ~InBounds(Shift(c, Opposite(city.dir[c])))}

\* a map with a spawn point and with an edge road whose flow leaves the map,
\* which is not one
C31_Witness ==
    /\ SpawnPoints # {}
    /\ \E c \in EdgeRoads : ~InBounds(Shift(c, city.dir[c])) /\ c \notin SpawnPoints
    /\ \E c \in SpawnPoints : InBounds(Shift(c, city.dir[c]))
    /\ astar.done

-----------------------------------------------------------------------------
(* Agent field invariants *)

\* C32: for every agent, in every state between agent steps, crashed holds
\* exactly when crash_recovery_steps > 0, and crash_recovery_steps is in 0..10
C32_CrashedIffCountingDown ==
    \A i \in DOMAIN car :
        /\ car[i].crashed <=> (car[i].crash_recovery_steps > 0)
        /\ car[i].crash_recovery_steps \in 0..10

\* a driver that has just crashed into an obstacle, the countdown untouched
C32_Witness ==
    /\ last.agent \in onGrid
    /\ last.branch = "crash_obstacle"
    /\ car[last.agent].crashed
    /\ car[last.agent].crash_recovery_steps = 10
    /\ city.kind[last.target] = "Obstacle"

-----------------------------------------------------------------------------
(* Rule-following cars on a map with a cell that holds no static element *)

InitGap ==
    /\ city = LoadMap(MapGap)
    /\ params = NormalProfile
    /\ limits = [steps |-> MaxGapTicks, cars |-> MaxGapCars]
    /\ ModelInit
    /\ pf = NoPf
    /\ astar = NoAStar

SpecGap == InitGap /\ [][Next]_vars

\* C33: every rule-following Car on the grid stands on a cell that hosts a
\* Road, a Traffic_Light or a Destination
C33_CarOnRoadCells ==
    \A i \in onGrid :
        car[i].kind = "Car" =>
            city.kind[car[i].cell] \in {"Road", "Traffic_Light", "Destination"}

-----------------------------------------------------------------------------
(* The stored path of a rule-following Car *)

LastCell(path) == path[Len(path)]

PathLeadsToDestination(me) ==
    me.path # <<>> =>
        /\ Adjacent4(me.cell, Head(me.path))
        /\ LastCell(me.path) = me.destination

\* C34: whenever the path of a rule-following Car is non-empty between two
\* steps, its first element is 4-adjacent to the Car's cell and its last
\* element is the Car's destination; and every step of a Car leaves it on
\* its cell or moves it by exactly one axis-aligned unit.
C34_PathHeadAdjacent ==
    /\ [](\A i \in onGrid : car[i].kind = "Car" => PathLeadsToDestination(car[i]))
    /\ [][\A i \in onGrid :
            (Stepped(i) /\ car[i].kind = "Car" /\ i \in onGrid')
                => ManhattanDistance(car[i].cell, car'[i].cell) <= 1]_vars

\* a Car has just moved along its path and still has more than one cell to go
C34_Witness ==
    /\ last.agent \in onGrid
    /\ last.branch = "path"
    /\ car[last.agent].kind = "Car"
    /\ car[last.agent].cell = last.target
    /\ Len(car[last.agent].path) >= 2
    /\ PathLeadsToDestination(car[last.agent])

-----------------------------------------------------------------------------
(* A refused step of a rule-following Car *)

\* the fields of a Car that a refused step must not touch
Position(me) ==
    [cell |-> me.cell, direction |-> me.direction, path |-> me.path,
     crashed |-> me.crashed]

\* C35: when a rule-following Car starts its step with a non-empty path and
\* is refused (red light on its cell, or a car on the first cell of its
\* path), the step leaves its cell, direction, path and crashed flag, every
\* other car and every light unchanged; a step that starts with a non-empty
\* path never recomputes it (the path stays or loses its first cell), so a
\* Car behind a car that does not move stays where it is, step after step.
C35_RefusedStepChangesNothing ==
    [][\A i \in onGrid :
        (/\ Stepped(i)
         /\ car[i].kind = "Car"
         /\ car[i].path # <<>>
         /\ car[i].crash_recovery_steps = 0
         /\ car[i].cell # car[i].destination)
        => /\ car'[i].path \in {car[i].path, Tail(car[i].path)}
           /\ (\/ (car[i].cell \in LightCells /\ ~lights[car[i].cell])
               \/ \E j \in onGrid : car[j].cell = Head(car[i].path))
              => /\ i \in onGrid'
                 /\ Position(car'[i]) = Position(car[i])
                 /\ \A j \in DOMAIN car \ {i} : car'[j] = car[j]
                 /\ onGrid' = onGrid
                 /\ lights' = lights]_vars

\* a Car has just been refused because a car stands on the first cell of the
\* path it already had
C35_Witness ==
    /\ last.agent \in onGrid
    /\ last.branch = "blocked"
    /\ car[last.agent].kind = "Car"
    /\ car[last.agent].path # <<>>
    /\ last.target = Head(car[last.agent].path)
    /\ \E j \in onGrid \ {last.agent} : car[j].cell = last.target

-----------------------------------------------------------------------------
(* The forgotten-route run of a drunkDriver *)

\* C36: for every drunkDriver random_steps_remaining stays within 0..5, and
\* while it is above 0 the stored path is empty: no route is computed
\* during a forgotten-route run.
C36_RunBoundedAndPathless ==
    \A i \in DOMAIN car :
        car[i].kind = "drunkDriver" =>
            /\ car[i].random_steps_remaining \in 0..5
            /\ car[i].random_steps_remaining > 0 => car[i].path = <<>>

\* a drunkDriver in the middle of a forgotten-route run has just made one of
\* its random moves
C36_Witness ==
    /\ last.agent \in onGrid
    /\ last.branch = "random_run"
    /\ car[last.agent].kind = "drunkDriver"
    /\ car[last.agent].random_steps_remaining \in 1..4
    /\ car[last.agent].cell = last.target
    /\ car[last.agent].path = <<>>

-----------------------------------------------------------------------------
(* The waiting_at_light flag, as getCars reports it *)

\* C37: whenever a car ends its step with waiting_at_light True, it has not
\* moved and its cell hosts a Traffic_Light that was red when the step ran;
\* the flag is never left True by a step that moved the car off the light
\* cell or that ran while the light was green.
C37_WaitingMeansRedLight ==
    [][\A i \in onGrid :
        (Stepped(i) /\ i \in onGrid' /\ car'[i].waiting_at_light)
            => /\ car'[i].cell = car[i].cell
               /\ car[i].cell \in LightCells
               /\ ~lights[car[i].cell]]_vars

-----------------------------------------------------------------------------
(* The counters of CityModel *)

\* C38: after every model step cars_reached_destination + len(cars) equals
\* cars_spawned and every car on the grid is in the cars list; and
\* cars_reached_destination never decreases.
C38_CountersBalance ==
    /\ [](phase = "idle" =>
            /\ cars_reached_destination + Cardinality(carsList) = cars_spawned
            /\ onGrid \subseteq carsList)
    /\ [][cars_reached_destination' >= cars_reached_destination]_vars

\* a tick has ended with one car arrived and another still on the road
C38_Witness ==
    /\ phase = "idle"
    /\ steps_count > 0
    /\ cars_reached_destination >= 1
    /\ carsList # {}
    /\ cars_spawned = cars_reached_destination + Cardinality(carsList)

-----------------------------------------------------------------------------
(* The stop condition on a map that has a spawn point *)

\* C39: on a map with at least one spawn point running is TRUE in every
\* reachable state: whenever model.cars is empty after a tick no car stands
\* on the grid, so a spawn point is free and can_spawn_more_cars answers True.
C39_NeverStopsWithSpawnPoint ==
    SpawnPoints # {} =>
        /\ running
        /\ (phase = "idle" /\ carsList = {})
              => \E sc \in SpawnPoints : \A j \in onGrid : car[j].cell # sc

\* every car spawned so far has arrived, none is left, and the run goes on
C39_Witness ==
    /\ SpawnPoints # {}
    /\ phase = "idle"
    /\ cars_reached_destination >= 1
    /\ carsList = {}
    /\ running

====
